---------------------------- MODULE Spec2Model ----------------------------
(***************************************************************************)
(* A model of the pumpdotfun_sdk pricing, trade-execution and event code:  *)
(*   - AMMCalculator.get_amount_out / get_amount_in /                      *)
(*     calculate_lp_tokens_to_mint, LiquidityPool, AMMManager  (amm.py)    *)
(*   - BondingCurveCalculator.get_buy_price / get_sell_price and           *)
(*     apply_slippage_tolerance                          (bonding_curve.py)*)
(*   - validate_slippage, calculate_slippage_amount,                       *)
(*     wait_for_confirmation                             (utils.py)        *)
(*   - PumpDotFunSDK.buy / sell / create_and_buy         (client.py)       *)
(*   - EventManager: registry, dispatch, listen loop     (events.py)       *)
(*   - GlobalAccountManager: the cached global account   (global_account.py)*)
(*                                                                         *)
(* Python integers are unbounded, so no arithmetic below wraps; the        *)
(* bounds only keep every intermediate product inside TLC's integers.      *)
(* Each part of the library has its own specification (SpecAMM, SpecCurve, *)
(* SpecSlip, SpecTrade, SpecPure, SpecPool, SpecEvents, SpecListen,        *)
(* SpecCache); a specification leaves the other parts' variables at their  *)
(* initial values. SpecListenLive is SpecListen with the fairness of the   *)
(* asyncio event loop.                                                     *)
(***************************************************************************)
EXTENDS Integers, Sequences, FiniteSets

VARIABLES
    ammPool,      \* the (reserve_in, reserve_out, fee_basis_points) a caller quotes against
    ammTrail,     \* the AMMCalculator calls of one caller, in order, with their outcomes
    realSol,      \* bonding curve: real_sol_reserves
    realToken,    \* bonding curve: real_token_reserves
    curveTrail,   \* the bonding-curve quotes applied so far, in order
    globalAccount,\* the GlobalAccountData held on chain (initial virtual reserves)
    slipCall,     \* the last slippage-bound call and its outcome
    tcall,        \* PumpDotFunSDK: the arguments of the buy / sell / create_and_buy call
    stage,        \* "create" inside _create_token, "trade" inside buy or sell
    pc,           \* the await the call is suspended at, "idle" or "done"
    tx,           \* the Transaction built for the next _send_transaction
    quote,        \* expected amount and slippage bound of the call
    sig,          \* the signature _send_transaction returned, "None" before
    createRes,    \* create_and_buy: the result _create_token returned
    result,       \* the TransactionResult the call returned
    confirmedSigs,\* signatures wait_for_confirmation returned True for, this call
    rpcLog,       \* the collaborator calls made by this call, in order
    sent,         \* the on-chain trade requests handed to send_transaction so far
    ncalls,       \* calls started on this SDK object
    pureCall,     \* the last direct call of a stateless function, with its outcome
    pools,        \* AMMManager.pools: (pool_id, LiquidityPool) in insertion order
    poolCall,     \* the last query made of the AMMManager or of a pool, with its outcome
    listeners,    \* EventManager.listeners: (id, event_type, callback) in insertion order
    next_id,      \* EventManager.next_id
    issued,       \* the ids add_listener has returned, in call order
    evCall,       \* the last _process_message: its message, outcome and callback invocations
    evOp,         \* the last EventManager call made: its name and its listener id
    is_listening, \* EventManager.is_listening
    listen_task,  \* EventManager.listen_task: the index of a task, 0 for None
    websocket_connection, \* EventManager.websocket_connection: the task that opened it, 0 for None
    tasks,        \* the _listen_loop tasks created so far: position, cancellation, socket
    dispatched,   \* the messages a listen loop handed to _process_message, in order
    cached_data,  \* GlobalAccountManager._cached_data
    cache_timestamp, \* GlobalAccountManager._cache_timestamp
    clock,        \* time.time(), in seconds
    cacheCall     \* the last GlobalAccountManager call, what it saw and what it returned

vars == <<ammPool, ammTrail, realSol, realToken, curveTrail, globalAccount, slipCall,
          tcall, stage, pc, tx, quote, sig, createRes, result,
          confirmedSigs, rpcLog, sent, ncalls, pureCall,
          pools, poolCall, listeners, next_id, issued, evCall, evOp,
          is_listening, listen_task, websocket_connection, tasks, dispatched,
          cached_data, cache_timestamp, clock, cacheCall>>

ammVars == <<ammPool, ammTrail>>
curveVars == <<realSol, realToken, curveTrail, globalAccount>>
slipVars == <<slipCall>>
pureVars == <<pureCall>>
poolVars == <<pools, poolCall>>
eventVars == <<listeners, next_id, issued, evCall, evOp>>
listenVars == <<is_listening, listen_task, websocket_connection, tasks, dispatched>>
cacheVars == <<cached_data, cache_timestamp, clock, cacheCall>>
tradeVars == <<tcall, stage, pc, tx, quote, sig, createRes, result,
               confirmedSigs, rpcLog, sent, ncalls>>

----------------------------------------------------------------------------
(* Bounds of the model *)

MaxAmount == 10       \* largest amount a caller passes to the AMM calculator
MaxReserve == 11      \* largest AMM reserve
MaxCurveTrades == 2   \* trades applied to one bonding curve
MaxRealSol == 2       \* largest initial real_sol_reserves
MaxRealToken == 40    \* largest initial real_token_reserves
MaxSolIn == 4         \* largest sol_amount of a buy
MaxTokensIn == 6      \* largest token_amount of a sell
MaxExpected == 20     \* largest expected_amount of a slippage-bound call
MaxSupply == 4        \* largest tokenTotalSupply of a BondingCurveAccount
MaxCalls == 2         \* calls made on one SDK object

(* Program constants *)

BPS_DENOMINATOR == 10000      \* the literal 10000 of amm.py / utils.py
FEE_BASIS_POINTS == 100       \* AMMCalculator.FEE_BASIS_POINTS

(* BondingCurveCalculator.VIRTUAL_SOL_RESERVES (30_000_000_000 lamports) and  *)
(* VIRTUAL_TOKEN_RESERVES (1_073_000_000_000_000 raw units), counted here in  *)
(* units of 10^9 lamports and 10^12 raw token units so that their product     *)
(* stays inside TLC's integers. The code's arithmetic is the same integer     *)
(* arithmetic at either scale.                                                *)
VIRTUAL_SOL_RESERVES == 30
VIRTUAL_TOKEN_RESERVES == 1073

(* types.LAMPORTS_PER_SOL (1_000_000_000), in the same unit of 10^9 lamports. *)
LAMPORTS_PER_SOL == 1

(* wait_for_confirmation's default timeout, in seconds. *)
WAIT_TIMEOUT == 60

(* fee_basis_points arguments tried: {} is None (the parameter's default),   *)
(* {f} is the integer f.                                                     *)
FeeArgs == {{}} \cup {{f} : f \in {0, 1, 100, 2500, 9999, 10000}}

FeeValue(fee) == CHOOSE f \in fee : TRUE

(* The fees the pricing claims range over: an integer in [0, 10000), or the *)
(* parameter left at its default.                                           *)
FeeInRange(fee) == \E f \in fee : f >= 0 /\ f < BPS_DENOMINATOR
FeeAccepted(fee) == fee = {} \/ FeeInRange(fee)

----------------------------------------------------------------------------
(* Outcomes of a call: a returned value, or a raised exception. *)

Ok(v) == [exc |-> "none", msg |-> "", value |-> v]
Raise(e, m) == [exc |-> e, msg |-> m, value |-> 0]
Returned(r) == r.exc = "none"

(* Python's `fee_basis_points or AMMCalculator.FEE_BASIS_POINTS`: None and 0 *)
(* are both falsy and give the default.                                      *)
FeeOrDefault(fee) ==
    IF fee = {} \/ fee = {0} THEN FEE_BASIS_POINTS ELSE FeeValue(fee)

----------------------------------------------------------------------------
(* AMMCalculator *)

get_amount_out_NoPositiveCheck(amount_in, reserve_in, reserve_out, fee_basis_points) ==
    IF amount_in <= 0 THEN Raise("PumpFunError", "Input amount must be positive")
    ELSE IF reserve_in <= 0 \/ reserve_out <= 0
         THEN Raise("PumpFunError", "Reserves must be positive")
    ELSE
      LET fee_bp == FeeOrDefault(fee_basis_points)
          amount_in_with_fee == amount_in * (BPS_DENOMINATOR - fee_bp)
          numerator == amount_in_with_fee * reserve_out
          denominator == (reserve_in * BPS_DENOMINATOR) + amount_in_with_fee
      IN  Ok(numerator \div denominator)

get_amount_out_Inverted(amount_in, reserve_in, reserve_out, fee_basis_points) ==
    IF amount_in <= 0 THEN Raise("PumpFunError", "Input amount must be positive")
    ELSE IF reserve_in <= 0 \/ reserve_out <= 0
         THEN Raise("PumpFunError", "Reserves must be positive")
    ELSE
      LET fee_bp == FeeOrDefault(fee_basis_points)
          amount_in_with_fee == amount_in * (BPS_DENOMINATOR - fee_bp)
          numerator == (BPS_DENOMINATOR - fee_bp) * reserve_out * reserve_in
          denominator == (reserve_in * BPS_DENOMINATOR) + amount_in_with_fee
          amount_out == numerator \div denominator
      IN  IF amount_out <= 0
          THEN Raise("PumpFunError", "Insufficient output amount")
          ELSE Ok(amount_out)

get_amount_out(amount_in, reserve_in, reserve_out, fee_basis_points) ==
    IF amount_in <= 0 THEN Raise("PumpFunError", "Input amount must be positive")
    ELSE IF reserve_in <= 0 \/ reserve_out <= 0
         THEN Raise("PumpFunError", "Reserves must be positive")
    ELSE
      LET fee_bp == FeeOrDefault(fee_basis_points)
          amount_in_with_fee == amount_in * (BPS_DENOMINATOR - fee_bp)
          numerator == amount_in_with_fee * reserve_out
          denominator == (reserve_in * BPS_DENOMINATOR) + amount_in_with_fee
          amount_out == numerator \div denominator
      IN  IF amount_out <= 0
          THEN Raise("PumpFunError", "Insufficient output amount")
          ELSE Ok(amount_out)

get_amount_in_NoRoundUp(amount_out, reserve_in, reserve_out, fee_basis_points) ==
    IF amount_out <= 0 THEN Raise("PumpFunError", "Output amount must be positive")
    ELSE IF reserve_in <= 0 \/ reserve_out <= 0
         THEN Raise("PumpFunError", "Reserves must be positive")
    ELSE IF amount_out >= reserve_out
         THEN Raise("PumpFunError", "Output amount exceeds reserves")
    ELSE
      LET fee_bp == FeeOrDefault(fee_basis_points)
          numerator == reserve_in * amount_out * BPS_DENOMINATOR
          denominator == (reserve_out - amount_out) * (BPS_DENOMINATOR - fee_bp)
      IN  IF denominator = 0
          THEN Raise("ZeroDivisionError", "integer division or modulo by zero")
          ELSE Ok(numerator \div denominator)

get_amount_in(amount_out, reserve_in, reserve_out, fee_basis_points) ==
    IF amount_out <= 0 THEN Raise("PumpFunError", "Output amount must be positive")
    ELSE IF reserve_in <= 0 \/ reserve_out <= 0
         THEN Raise("PumpFunError", "Reserves must be positive")
    ELSE IF amount_out >= reserve_out
         THEN Raise("PumpFunError", "Output amount exceeds reserves")
    ELSE
      LET fee_bp == FeeOrDefault(fee_basis_points)
          numerator == reserve_in * amount_out * BPS_DENOMINATOR
          denominator == (reserve_out - amount_out) * (BPS_DENOMINATOR - fee_bp)
      IN  \* `//` by zero (fee 10000) raises ZeroDivisionError
          IF denominator = 0
          THEN Raise("ZeroDivisionError", "integer division or modulo by zero")
          ELSE Ok((numerator \div denominator) + 1)

(* One caller of the calculator: it quotes against a fixed pool, either    *)
(* with an amount of its own or with the value the previous call returned. *)
(* The functions are static and keep no state, so the trail records a pair *)
(* of calls: the most any property of them relates.                        *)

AmmInit ==
    /\ ammPool \in [reserve_in : 0..MaxReserve, reserve_out : 0..MaxReserve,
                    fee : FeeArgs]
    /\ ammTrail = <<>>

AmmCall(fn, arg) ==
    [fn |-> fn, arg |-> arg,
     res |-> IF fn = "get_amount_out"
             THEN get_amount_out(arg, ammPool.reserve_in, ammPool.reserve_out, ammPool.fee)
             ELSE get_amount_in(arg, ammPool.reserve_in, ammPool.reserve_out, ammPool.fee)]

AmmGetAmountOut(a) ==
    /\ Len(ammTrail) < 2
    /\ ammTrail' = Append(ammTrail, AmmCall("get_amount_out", a))
    /\ UNCHANGED <<ammPool, curveVars, slipVars, tradeVars, pureVars, poolVars, eventVars, listenVars, cacheVars>>

AmmGetAmountIn(a) ==
    /\ Len(ammTrail) < 2
    /\ ammTrail' = Append(ammTrail, AmmCall("get_amount_in", a))
    /\ UNCHANGED <<ammPool, curveVars, slipVars, tradeVars, pureVars, poolVars, eventVars, listenVars, cacheVars>>

(* get_amount_in(get_amount_out(x, ...), ...) *)
AmmRoundTripIn ==
    /\ Len(ammTrail) = 1
    /\ ammTrail[Len(ammTrail)].fn = "get_amount_out"
    /\ Returned(ammTrail[Len(ammTrail)].res)
    /\ ammTrail' = Append(ammTrail,
                          AmmCall("get_amount_in", ammTrail[Len(ammTrail)].res.value))
    /\ UNCHANGED <<ammPool, curveVars, slipVars, tradeVars, pureVars, poolVars, eventVars, listenVars, cacheVars>>

(* get_amount_out(get_amount_in(y, ...), ...) *)
AmmRoundTripOut ==
    /\ Len(ammTrail) = 1
    /\ ammTrail[Len(ammTrail)].fn = "get_amount_in"
    /\ Returned(ammTrail[Len(ammTrail)].res)
    /\ ammTrail' = Append(ammTrail,
                          AmmCall("get_amount_out", ammTrail[Len(ammTrail)].res.value))
    /\ UNCHANGED <<ammPool, curveVars, slipVars, tradeVars, pureVars, poolVars, eventVars, listenVars, cacheVars>>

NextAMM ==
    \/ \E a \in 0..MaxAmount : AmmGetAmountOut(a)
    \/ \E a \in 0..MaxAmount : AmmGetAmountIn(a)
    \/ AmmRoundTripIn
    \/ AmmRoundTripOut

----------------------------------------------------------------------------
(* BondingCurveCalculator *)

(* Python's n // d for d # 0: the floor of the quotient. *)
FloorDiv(n, d) == IF d > 0 THEN n \div d ELSE (-n) \div (-d)

(* k // new_sol_reserves raises ZeroDivisionError when the divisor is 0,    *)
(* which needs a real reserve of minus the virtual one or below.           *)
get_buy_price_RoundsReserveUp(sol_amount, real_sol_reserves, real_token_reserves) ==
    IF sol_amount <= 0 THEN Raise("PumpFunError", "SOL amount must be positive")
    ELSE
      LET virtual_sol_reserves == VIRTUAL_SOL_RESERVES + real_sol_reserves
          virtual_token_reserves == VIRTUAL_TOKEN_RESERVES + real_token_reserves
          k == virtual_sol_reserves * virtual_token_reserves
          new_sol_reserves == virtual_sol_reserves + sol_amount
          new_token_reserves == FloorDiv(k + new_sol_reserves - 1, new_sol_reserves)
          tokens_out == virtual_token_reserves - new_token_reserves
      IN  IF new_sol_reserves = 0
          THEN Raise("ZeroDivisionError", "integer division or modulo by zero")
          ELSE IF tokens_out <= 0
          THEN Raise("PumpFunError", "Invalid token amount calculated")
          ELSE Ok(tokens_out)

get_buy_price_Unchecked(sol_amount, real_sol_reserves, real_token_reserves) ==
    LET virtual_sol_reserves == VIRTUAL_SOL_RESERVES + real_sol_reserves
        virtual_token_reserves == VIRTUAL_TOKEN_RESERVES + real_token_reserves
        k == virtual_sol_reserves * virtual_token_reserves
        new_sol_reserves == virtual_sol_reserves + sol_amount
        new_token_reserves == FloorDiv(k, new_sol_reserves)
        tokens_out == virtual_token_reserves - new_token_reserves
    IN  IF new_sol_reserves = 0
        THEN Raise("ZeroDivisionError", "integer division or modulo by zero")
        ELSE Ok(tokens_out)

get_buy_price(sol_amount, real_sol_reserves, real_token_reserves) ==
    IF sol_amount <= 0 THEN Raise("PumpFunError", "SOL amount must be positive")
    ELSE
      LET virtual_sol_reserves == VIRTUAL_SOL_RESERVES + real_sol_reserves
          virtual_token_reserves == VIRTUAL_TOKEN_RESERVES + real_token_reserves
          k == virtual_sol_reserves * virtual_token_reserves
          new_sol_reserves == virtual_sol_reserves + sol_amount
          new_token_reserves == FloorDiv(k, new_sol_reserves)
          tokens_out == virtual_token_reserves - new_token_reserves
      IN  IF new_sol_reserves = 0
          THEN Raise("ZeroDivisionError", "integer division or modulo by zero")
          ELSE IF tokens_out <= 0
          THEN Raise("PumpFunError", "Invalid token amount calculated")
          ELSE Ok(tokens_out)

get_sell_price(token_amount, real_sol_reserves, real_token_reserves) ==
    IF token_amount <= 0 THEN Raise("PumpFunError", "Token amount must be positive")
    ELSE
      LET virtual_sol_reserves == VIRTUAL_SOL_RESERVES + real_sol_reserves
          virtual_token_reserves == VIRTUAL_TOKEN_RESERVES + real_token_reserves
          k == virtual_sol_reserves * virtual_token_reserves
          new_token_reserves == virtual_token_reserves + token_amount
          new_sol_reserves == FloorDiv(k, new_token_reserves)
          sol_out == virtual_sol_reserves - new_sol_reserves
      IN  IF new_token_reserves = 0
          THEN Raise("ZeroDivisionError", "integer division or modulo by zero")
          ELSE IF sol_out <= 0
          THEN Raise("PumpFunError", "Invalid SOL amount calculated")
          ELSE Ok(sol_out)

(* A curve whose trades are applied at their quoted amounts: a buy adds    *)
(* sol_amount to the real SOL reserves and takes the quoted tokens out, a  *)
(* sell does the reverse. A quote that raises changes nothing.             *)

(* The on-chain global account: the protocol's current initial virtual    *)
(* reserves (GlobalAccountData), in the units of VIRTUAL_SOL_RESERVES and  *)
(* VIRTUAL_TOKEN_RESERVES. The protocol can change them.                   *)
GlobalAccountData(virtual_sol, virtual_token) ==
    [initial_virtual_sol_reserves |-> virtual_sol,
     initial_virtual_token_reserves |-> virtual_token]

GlobalAccounts == {GlobalAccountData(30, 1073), GlobalAccountData(32, 1100)}

CurveInit ==
    /\ realSol \in 0..MaxRealSol
    /\ realToken \in 0..MaxRealToken
    /\ curveTrail = <<>>
    /\ globalAccount \in GlobalAccounts

CurveEntry(kind, amount, res) ==
    [kind |-> kind, amount |-> amount, res |-> res,
     real_sol |-> realSol, real_token |-> realToken]

CurveBuy(sol_amount) ==
    LET res == get_buy_price(sol_amount, realSol, realToken) IN
    /\ Len(curveTrail) < MaxCurveTrades
    /\ curveTrail' = Append(curveTrail, CurveEntry("buy", sol_amount, res))
    /\ realSol' = IF Returned(res) THEN realSol + sol_amount ELSE realSol
    /\ realToken' = IF Returned(res) THEN realToken - res.value ELSE realToken
    /\ UNCHANGED <<globalAccount, ammVars, slipVars, tradeVars, pureVars, poolVars, eventVars, listenVars, cacheVars>>

CurveSell(token_amount) ==
    LET res == get_sell_price(token_amount, realSol, realToken) IN
    /\ Len(curveTrail) < MaxCurveTrades
    /\ curveTrail' = Append(curveTrail, CurveEntry("sell", token_amount, res))
    /\ realToken' = IF Returned(res) THEN realToken + token_amount ELSE realToken
    /\ realSol' = IF Returned(res) THEN realSol - res.value ELSE realSol
    /\ UNCHANGED <<globalAccount, ammVars, slipVars, tradeVars, pureVars, poolVars, eventVars, listenVars, cacheVars>>

(* Sell exactly the tokens the buy just before returned. *)
CurveSellBought ==
    /\ Len(curveTrail) \in 1..(MaxCurveTrades - 1)
    /\ curveTrail[Len(curveTrail)].kind = "buy"
    /\ Returned(curveTrail[Len(curveTrail)].res)
    /\ CurveSell(curveTrail[Len(curveTrail)].res.value)

NextCurve ==
    \/ \E a \in 0..MaxSolIn : CurveBuy(a)
    \/ \E a \in 0..MaxTokensIn : CurveSell(a)
    \/ CurveSellBought

----------------------------------------------------------------------------
(* bonding_curve.py, its functions called directly on any integers *)

(* max(0, int(additional_sol_needed)); the divisor is the constant         *)
(* VIRTUAL_TOKEN_RESERVES.                                                 *)
get_buy_out_price(real_sol_reserves, real_token_reserves) ==
    LET virtual_sol_reserves == VIRTUAL_SOL_RESERVES + real_sol_reserves
        virtual_token_reserves == VIRTUAL_TOKEN_RESERVES + real_token_reserves
        k == virtual_sol_reserves * virtual_token_reserves
        final_token_reserves == VIRTUAL_TOKEN_RESERVES
        required_sol_reserves == FloorDiv(k, final_token_reserves)
        additional_sol_needed == required_sol_reserves - virtual_sol_reserves
    IN  Ok(IF additional_sol_needed > 0 THEN additional_sol_needed ELSE 0)

(* A float result, kept as the exact fraction num / den with den > 0. *)
Fraction(num, den) == [num |-> num, den |-> den]

(* BondingCurveAccount.get_progress_percentage on an account with the      *)
(* given tokenTotalSupply and realTokenReserves:                           *)
(* min((tokens_bought / token_total_supply) * 100, 100.0), 0.0 when the    *)
(* supply is <= 0. The float is within rounding of the fraction, and on    *)
(* the same side of 0 and of 100.                                          *)
get_progress_percentage(token_total_supply, real_token_reserves) ==
    IF token_total_supply <= 0 THEN Ok(Fraction(0, 1))
    ELSE LET tokens_bought == token_total_supply - real_token_reserves
         IN  IF tokens_bought * 100 <= 100 * token_total_supply
             THEN Ok(Fraction(tokens_bought * 100, token_total_supply))
             ELSE Ok(Fraction(100, 1))

NoPureCall == [fn |-> "none", args |-> <<>>, res |-> Ok(0), from |-> "none"]

PureCall(fn, args, res, from) == [fn |-> fn, args |-> args, res |-> res, from |-> from]

(* The functions are static or read-only and keep no state: a behaviour is *)
(* one call by a caller, and the call that uses its result.                *)
(* The arguments tried: real reserves at and below minus the virtual ones, *)
(* where the virtual reserves of a quote are zero or negative, and the     *)
(* non-negative ones of a curve.                                           *)
SolReserveArgs == {-(VIRTUAL_SOL_RESERVES + 1), -VIRTUAL_SOL_RESERVES} \cup 0..MaxRealSol
TokenReserveArgs ==
    {-(VIRTUAL_TOKEN_RESERVES + 1), -VIRTUAL_TOKEN_RESERVES} \cup 0..MaxRealToken
SupplyArgs == {-1} \cup 0..MaxSupply

PureBuyPrice(a, rs, rt) ==
    /\ pureCall = NoPureCall
    /\ pureCall' = PureCall("get_buy_price", <<a, rs, rt>>, get_buy_price(a, rs, rt), "caller")
    /\ UNCHANGED <<ammVars, curveVars, slipVars, tradeVars, poolVars, eventVars, listenVars, cacheVars>>

PureSellPrice(a, rs, rt) ==
    /\ pureCall = NoPureCall
    /\ pureCall' = PureCall("get_sell_price", <<a, rs, rt>>, get_sell_price(a, rs, rt), "caller")
    /\ UNCHANGED <<ammVars, curveVars, slipVars, tradeVars, poolVars, eventVars, listenVars, cacheVars>>

PureBuyOutPrice(rs, rt) ==
    /\ pureCall = NoPureCall
    /\ pureCall' = PureCall("get_buy_out_price", <<rs, rt>>, get_buy_out_price(rs, rt), "caller")
    /\ UNCHANGED <<ammVars, curveVars, slipVars, tradeVars, poolVars, eventVars, listenVars, cacheVars>>

(* get_buy_price of the amount get_buy_out_price just returned, on the     *)
(* same reserves.                                                          *)
PureBuyAtBuyOutPrice ==
    /\ pureCall.fn = "get_buy_out_price"
    /\ LET rs == pureCall.args[1]
           rt == pureCall.args[2]
           a == pureCall.res.value
       IN  pureCall' = PureCall("get_buy_price", <<a, rs, rt>>, get_buy_price(a, rs, rt),
                                "get_buy_out_price")
    /\ UNCHANGED <<ammVars, curveVars, slipVars, tradeVars, poolVars, eventVars, listenVars, cacheVars>>

PureProgress(supply, rt) ==
    /\ pureCall = NoPureCall
    /\ pureCall' = PureCall("get_progress_percentage", <<supply, rt>>,
                            get_progress_percentage(supply, rt), "caller")
    /\ UNCHANGED <<ammVars, curveVars, slipVars, tradeVars, poolVars, eventVars, listenVars, cacheVars>>

(* amm.py: AMMCalculator.calculate_lp_tokens_to_mint                       *)

MaxLpAmount == 6      \* largest token amount added as liquidity
MaxLpReserve == 2     \* largest reserve and LP supply of the pool added to

(* AMMCalculator.MINIMUM_LIQUIDITY is 1000; the amounts of the model are   *)
(* scaled down, and so is it.                                              *)
MINIMUM_LIQUIDITY == 2

(* math.sqrt works on doubles, which have 53 significant bits: products    *)
(* from about 2^53 on are rounded when they are converted, and a root is   *)
(* rounded to 53 bits. The floats of the model have FLOAT_BITS significant *)
(* bits, scaled down as the amounts are.                                   *)
FLOAT_BITS == 5

(* The number of bits of n >= 0. *)
BitLength(n) == CHOOSE b \in 0..30 : n < 2^b /\ (b = 0 \/ n >= 2^(b - 1))

(* float(n) for n >= 0: n rounded to FLOAT_BITS significant bits, ties to  *)
(* the even mantissa.                                                      *)
ToFloat(n) ==
    IF BitLength(n) <= FLOAT_BITS THEN n
    ELSE LET unit == 2^(BitLength(n) - FLOAT_BITS)
             q == n \div unit
             r == n % unit
         IN  IF 2 * r > unit \/ (2 * r = unit /\ q % 2 = 1)
             THEN (q + 1) * unit ELSE q * unit

(* floor(sqrt(n)) *)
Isqrt(n) == CHOOSE r \in 0..n : r * r <= n /\ (r + 1) * (r + 1) > n

(* int(math.sqrt(f)) for a float f >= 0 with an integer value: the root    *)
(* correctly rounded to FLOAT_BITS significant bits, then truncated. A     *)
(* root with fewer than FLOAT_BITS integer bits keeps frac fractional      *)
(* bits: it is the nearest multiple of 2^-frac. A longer root is the       *)
(* nearest multiple of 2^drop.                                             *)
IntSqrtFloat(f) ==
    LET bits == BitLength(Isqrt(f)) IN
    IF bits <= FLOAT_BITS
    THEN LET frac == FLOAT_BITS - bits
             scaled == f * 4^frac
             q == Isqrt(scaled)
             mantissa == IF 4 * scaled > (2 * q + 1) * (2 * q + 1) THEN q + 1 ELSE q
         IN  mantissa \div 2^frac
    ELSE LET drop == bits - FLOAT_BITS
             q == Isqrt(f) \div 2^drop
             mid == (2 * q + 1) * (2 * q + 1) * 4^drop
             mantissa == IF 4 * f > mid \/ (4 * f = mid /\ q % 2 = 1)
                         THEN q + 1 ELSE q
         IN  mantissa * 2^drop

(* AMMCalculator.calculate_lp_tokens_to_mint: with no LP supply,           *)
(* max(int(math.sqrt(a * b)) - MINIMUM_LIQUIDITY, 0), math.sqrt raising    *)
(* ValueError for a negative product; otherwise the smaller of the two     *)
(* floored proportions, a zero reserve raising ZeroDivisionError.          *)
calculate_lp_tokens_to_mint(token_a_amount, token_b_amount, token_a_reserves, token_b_reserves, total_supply) ==
    IF total_supply = 0
    THEN IF token_a_amount * token_b_amount < 0
         THEN Raise("ValueError", "math domain error")
         ELSE LET liquidity == IntSqrtFloat(ToFloat(token_a_amount * token_b_amount))
              IN  Ok(IF liquidity - MINIMUM_LIQUIDITY > 0
                     THEN liquidity - MINIMUM_LIQUIDITY ELSE 0)
    ELSE IF token_a_reserves = 0 \/ token_b_reserves = 0
         THEN Raise("ZeroDivisionError", "integer division or modulo by zero")
         ELSE LET liquidity_a == FloorDiv(token_a_amount * total_supply, token_a_reserves)
                  liquidity_b == FloorDiv(token_b_amount * total_supply, token_b_reserves)
              IN  Ok(IF liquidity_a < liquidity_b THEN liquidity_a ELSE liquidity_b)

PureLpTokensToMint ==
    /\ pureCall = NoPureCall
    /\ \E a \in 0..MaxLpAmount, b \in 0..MaxLpAmount,
          ra \in 0..MaxLpReserve, rb \in 0..MaxLpReserve, supply \in 0..MaxLpReserve :
          pureCall' = PureCall("calculate_lp_tokens_to_mint", <<a, b, ra, rb, supply>>,
                               calculate_lp_tokens_to_mint(a, b, ra, rb, supply), "none")
    /\ UNCHANGED <<ammVars, curveVars, slipVars, tradeVars, poolVars, eventVars, listenVars, cacheVars>>

----------------------------------------------------------------------------
(* utils.py: validate_slippage, sol_to_lamports, calculate_slippage_amount, *)
(* and BondingCurveCalculator.apply_slippage_tolerance                      *)

validate_slippage_ExclusiveEnds(slippage_basis_points) ==
    0 < slippage_basis_points /\ slippage_basis_points < BPS_DENOMINATOR

validate_slippage_NoUpperBound(slippage_basis_points) ==
    0 <= slippage_basis_points

validate_slippage(slippage_basis_points) ==
    0 <= slippage_basis_points /\ slippage_basis_points <= BPS_DENOMINATOR

(* Python's int() of a quotient n / d, d > 0: truncation toward zero. *)
TruncDiv(n, d) == IF n >= 0 THEN n \div d ELSE -((-n) \div d)

(* buy_amount_sol is a float; the model passes it in halves of a SOL, so   *)
(* that a positive amount below one unit exists. int(sol * LAMPORTS_PER_SOL) *)
sol_to_lamports(sol_halves) == TruncDiv(sol_halves * LAMPORTS_PER_SOL, 2)

(* int(expected_amount * (1 -/+ slippage_basis_points / 10000)), computed  *)
(* in binary floating point. The exact quotient is n / 10000 with          *)
(* n = expected * (10000 -/+ bps). When that quotient is not an integer it *)
(* is at least 1/10000 away from one, far more than the rounding error of  *)
(* the amounts modelled here, and int() truncates it. When it is a         *)
(* non-zero integer, the result depends on the double the multiplier       *)
(* 1 -/+ bps / 10000 rounds to: if that double is below the exact          *)
(* multiplier the product falls just short of the integer                  *)
(* (5 * (1 - 0.8) is 0.9999999999999998) and int() returns the integer     *)
(* before it. Of the tolerances modelled, that is the case of 1 - 0.8      *)
(* (0.19999999999999996); 0.95, 1.05, 1.8 and the multiples of 1/16 give   *)
(* the integer itself.                                                     *)
MultiplierBelowExact == {<<8000, TRUE>>}

SlippageValues(expected_amount, slippage_basis_points, is_minimum) ==
    LET n == expected_amount *
               (IF is_minimum THEN BPS_DENOMINATOR - slippage_basis_points
                              ELSE BPS_DENOMINATOR + slippage_basis_points)
        exact == TruncDiv(n, BPS_DENOMINATOR)
    IN  IF /\ n # 0
           /\ n % BPS_DENOMINATOR = 0
           /\ <<slippage_basis_points, is_minimum>> \in MultiplierBelowExact
        THEN {exact - 1}
        ELSE {exact}

(* The outcomes of calculate_slippage_amount: it has no check of its       *)
(* arguments and always returns.                                           *)
calculate_slippage_amount(expected_amount, slippage_basis_points, is_minimum) ==
    {Ok(v) : v \in SlippageValues(expected_amount, slippage_basis_points, is_minimum)}

(* The same body, in bonding_curve.py. *)
apply_slippage_tolerance(amount, slippage_basis_points, is_minimum) ==
    {Ok(v) : v \in SlippageValues(amount, slippage_basis_points, is_minimum)}

SlippageArgs == {-1, 0, 1, 500, 625, 5000, 8000, 9999, 10000, 10001, 20000}

SlipCalculate(e, b, m) ==
    /\ \E r \in calculate_slippage_amount(e, b, m) :
          slipCall' = [fn |-> "calculate_slippage_amount", expected_amount |-> e,
                       slippage_basis_points |-> b, is_minimum |-> m, res |-> r]
    /\ UNCHANGED <<ammVars, curveVars, tradeVars, pureVars, poolVars, eventVars, listenVars, cacheVars>>

SlipApply(e, b, m) ==
    /\ \E r \in apply_slippage_tolerance(e, b, m) :
          slipCall' = [fn |-> "apply_slippage_tolerance", expected_amount |-> e,
                       slippage_basis_points |-> b, is_minimum |-> m, res |-> r]
    /\ UNCHANGED <<ammVars, curveVars, tradeVars, pureVars, poolVars, eventVars, listenVars, cacheVars>>

(* validate_slippage(b) called directly *)
SlipValidate(b) ==
    /\ slipCall' = [fn |-> "validate_slippage", expected_amount |-> 0,
                    slippage_basis_points |-> b, is_minimum |-> TRUE,
                    res |-> Ok(validate_slippage(b))]
    /\ UNCHANGED <<ammVars, curveVars, tradeVars, pureVars, poolVars, eventVars, listenVars, cacheVars>>

NextSlip ==
    \/ \E b \in SlippageArgs : SlipValidate(b)
    \/ \E e \in 0..MaxExpected, b \in SlippageArgs, m \in BOOLEAN : SlipCalculate(e, b, m)
    \/ \E e \in 0..MaxExpected, b \in SlippageArgs, m \in BOOLEAN : SlipApply(e, b, m)

----------------------------------------------------------------------------
(* client.py: PumpDotFunSDK.buy, sell, create_and_buy, _create_token        *)

(* TransactionResult(success, signature, error); None is "None". *)
TransactionResult(success, signature, error) ==
    [success |-> success, signature |-> signature, error |-> error]
Failure(error) == TransactionResult(FALSE, "None", error)
NoResult == TransactionResult(FALSE, "None", "None")

NoTx == [program_id |-> "none", data |-> "none", accounts |-> <<>>, params |-> <<>>]
NoQuote == [computed |-> FALSE, expected |-> 0, bound |-> 0]
NoCall == [op |-> "none", amount |-> 0, slippage_basis_points |-> 0,
           backend |-> "ON_CHAIN", simulate |-> FALSE, mint_authority |-> FALSE]

(* _build_buy_transaction: sol_amount, min_tokens_out and priority_fees    *)
(* are parameters the body never reads.                                    *)
build_buy_transaction(sol_amount, min_tokens_out) ==
    [program_id |-> "PUMP_FUN_PROGRAM_ID", data |-> "buy",
     accounts |-> <<"buyer", "mint">>, params |-> <<>>]

(* _build_sell_transaction: likewise for token_amount and min_sol_out. *)
build_sell_transaction(token_amount, min_sol_out) ==
    [program_id |-> "PUMP_FUN_PROGRAM_ID", data |-> "sell",
     accounts |-> <<"seller", "mint">>, params |-> <<>>]

(* _create_token's instruction (on chain), and its create_account (simulate). *)
CreateTransaction(simulate) ==
    IF simulate
    THEN [program_id |-> "SYS_PROGRAM_ID", data |-> "create_account",
          accounts |-> <<"creator", "mint">>, params |-> <<>>]
    ELSE [program_id |-> "PUMP_FUN_PROGRAM_ID", data |-> "create",
          accounts |-> <<"creator", "mint">>, params |-> <<>>]

(* The system transfer the simulate paths of buy and sell build. *)
TransferTransaction(from, to, lamports) ==
    [program_id |-> "SYS_PROGRAM_ID", data |-> "transfer",
     accounts |-> <<from, to>>, params |-> <<lamports>>]

(* _parse_bonding_curve_data returns the same placeholder for any account  *)
(* data: realSolReserves 0 and realTokenReserves 800_000_000_000_000 (800  *)
(* in the unit of VIRTUAL_TOKEN_RESERVES).                                 *)
parse_bonding_curve_data ==
    [real_sol_reserves |-> 0, real_token_reserves |-> 800, complete |-> FALSE]

(* wait_for_confirmation(rpc_client, signature, commitment, timeout), from *)
(* the outcome of its first get_signature_statuses poll. The loop is       *)
(* entered when 0 < timeout (no time has passed at its first test). A poll *)
(* that shows the signature at the commitment returns True. Any other poll *)
(* (an RPC error is caught and logged) goes on to `await asyncio.sleep(1)`,*)
(* and utils.py never imports asyncio: the call raises NameError.          *)
PollOutcomes == {"at_commitment", "below_commitment", "no_status", "rpc_error"}

wait_for_confirmation(poll, timeout) ==
    IF ~(0 < timeout) THEN Ok(FALSE)
    ELSE IF poll = "at_commitment" THEN Ok(TRUE)
    ELSE Raise("NameError", "name 'asyncio' is not defined")

(* What _portal_request gives back: an exception (HTTP error, timeout), or *)
(* the JSON object of the response, of which the code reads                *)
(* resp.get("success", True) and resp.get("signature").                    *)
PortalOutcomes ==
    {[raised |-> TRUE,  has_success |-> FALSE, success |-> FALSE, signature |-> "None"],
     [raised |-> FALSE, has_success |-> FALSE, success |-> FALSE, signature |-> "None"],
     [raised |-> FALSE, has_success |-> FALSE, success |-> FALSE, signature |-> "sigPortal"],
     [raised |-> FALSE, has_success |-> TRUE,  success |-> TRUE,  signature |-> "sigPortal"],
     [raised |-> FALSE, has_success |-> TRUE,  success |-> FALSE, signature |-> "None"]}

PortalResult(resp) ==
    IF resp.raised THEN Failure("portal request failed")
    ELSE TransactionResult(IF resp.has_success THEN resp.success ELSE TRUE,
                           resp.signature, "None")

(* Where a stage goes next: the await it suspends at, or its return. *)
Ctl(p, st, t, res, cr) ==
    [pc |-> p, stage |-> st, tx |-> t, result |-> res, createRes |-> cr]

Return(res, cr) == Ctl("done", "none", NoTx, res, cr)

EnterTrade_NoFetch(call, cr) ==
    IF ~validate_slippage(call.slippage_basis_points)
    THEN Return(Failure("Invalid slippage value"), cr)
    ELSE IF call.amount <= 0
    THEN Return(Failure(IF call.op = "sell" THEN "Sell amount must be positive"
                                            ELSE "Buy amount must be positive"), cr)
    ELSE IF call.backend = "PUMP_PORTAL"
    THEN Ctl("portal", "trade", NoTx, NoResult, cr)
    ELSE IF call.simulate
    THEN IF call.op = "sell"
         THEN IF ~call.mint_authority
              THEN Return(Failure("mint_authority required for simulation"), cr)
              ELSE Ctl("send", "trade",
                       TransferTransaction("mint_authority", "seller", call.amount),
                       NoResult, cr)
         ELSE Ctl("send", "trade",
                  TransferTransaction("buyer", "mint", sol_to_lamports(call.amount)),
                  NoResult, cr)
    ELSE Ctl("send", "trade",
             IF call.op = "sell" THEN build_sell_transaction(call.amount, 0)
             ELSE build_buy_transaction(sol_to_lamports(call.amount), 0),
             NoResult, cr)

(* buy / sell from their first line to their first await. *)
EnterTrade(call, cr) ==
    IF ~validate_slippage(call.slippage_basis_points)
    THEN Return(Failure("Invalid slippage value"), cr)
    ELSE IF call.amount <= 0
    THEN Return(Failure(IF call.op = "sell" THEN "Sell amount must be positive"
                                            ELSE "Buy amount must be positive"), cr)
    ELSE IF call.backend = "PUMP_PORTAL"
    THEN Ctl("portal", "trade", NoTx, NoResult, cr)
    ELSE IF call.simulate
    THEN IF call.op = "sell"
         THEN IF ~call.mint_authority
              THEN Return(Failure("mint_authority required for simulation"), cr)
              ELSE Ctl("send", "trade",
                       TransferTransaction("mint_authority", "seller", call.amount),
                       NoResult, cr)
         ELSE Ctl("send", "trade",
                  TransferTransaction("buyer", "mint", sol_to_lamports(call.amount)),
                  NoResult, cr)
    ELSE Ctl("fetch", "trade", NoTx, NoResult, cr)

(* _create_token from its first line to its first await. *)
EnterCreate(call) ==
    IF call.backend = "PUMP_PORTAL"
    THEN Ctl("portal", "create", NoTx, NoResult, NoResult)
    ELSE IF call.simulate
    THEN Ctl("rent", "create", NoTx, NoResult, NoResult)
    ELSE Ctl("send", "create", CreateTransaction(FALSE), NoResult, NoResult)

(* create_and_buy from its first line to its first await. *)
EnterCreateAndBuy(call) ==
    IF ~validate_slippage(call.slippage_basis_points)
    THEN Return(Failure("Invalid slippage value"), NoResult)
    ELSE IF call.amount <= 0
    THEN Return(Failure("Buy amount must be positive"), NoResult)
    ELSE EnterCreate(call)

FinishStage_RetryOnFailure(res) ==
    IF stage = "create"
    THEN IF ~res.success THEN Return(res, res) ELSE EnterTrade(tcall, res)
    ELSE IF ~res.success /\ tx # NoTx /\ Len(rpcLog) < 6
         THEN Ctl("send", "trade", tx, NoResult, createRes)
         ELSE Return(res, createRes)

FinishStage_BuysAfterFailedCreate(res) ==
    IF stage = "create"
    THEN EnterTrade(tcall, res)
    ELSE Return(res, createRes)

(* A stage returns res: _create_token's result either ends create_and_buy  *)
(* (not success) or is followed by self.buy; the result of buy or sell is  *)
(* the call's result (create_and_buy copies success, signature and error). *)
FinishStage(res) ==
    IF stage = "create"
    THEN IF ~res.success THEN Return(res, res) ELSE EnterTrade(tcall, res)
    ELSE Return(res, createRes)

Goto(ctl) ==
    /\ pc' = ctl.pc
    /\ stage' = ctl.stage
    /\ tx' = ctl.tx
    /\ result' = ctl.result
    /\ createRes' = ctl.createRes

TradeArgs ==
    [op : {"buy", "sell", "create_and_buy"},
     amount : {-1, 0, 1, 2},
     slippage_basis_points : {-1, 0, 500, 10000, 10001},
     backend : {"ON_CHAIN", "PUMP_PORTAL"},
     simulate : BOOLEAN,
     mint_authority : BOOLEAN]

TradeInit ==
    /\ tcall = NoCall
    /\ stage = "none"
    /\ pc = "idle"
    /\ tx = NoTx
    /\ quote = NoQuote
    /\ sig = "None"
    /\ createRes = NoResult
    /\ result = NoResult
    /\ confirmedSigs = {}
    /\ rpcLog = <<>>
    /\ sent = {}
    /\ ncalls = 0

(* A caller awaits buy, sell or create_and_buy. *)
TradeStart(call) ==
    /\ pc \in {"idle", "done"}
    /\ ncalls < MaxCalls
    \* mint_authority is a parameter of sell, read only on its simulate path
    /\ (call.op = "sell" /\ call.simulate /\ call.backend = "ON_CHAIN") \/ ~call.mint_authority
    /\ ncalls' = ncalls + 1
    /\ tcall' = call
    /\ quote' = NoQuote
    /\ sig' = "None"
    /\ confirmedSigs' = {}
    /\ rpcLog' = <<>>
    /\ Goto(IF call.op = "create_and_buy" THEN EnterCreateAndBuy(call)
                                          ELSE EnterTrade(call, NoResult))
    /\ UNCHANGED <<sent, ammVars, curveVars, slipVars, pureVars, poolVars, eventVars, listenVars, cacheVars>>

(* _portal_request answers (buy, sell and _create_token with PUMP_PORTAL). *)
PortalRespond(resp) ==
    /\ pc = "portal"
    /\ rpcLog' = Append(rpcLog, "portal_request")
    /\ Goto(FinishStage(PortalResult(resp)))
    /\ UNCHANGED <<tcall, quote, sig, confirmedSigs, sent, ncalls,
                   ammVars, curveVars, slipVars, pureVars, poolVars, eventVars, listenVars, cacheVars>>

(* _create_token, simulate: get_minimum_balance_for_rent_exemption answers. *)
RentRespond(ok) ==
    /\ pc = "rent"
    /\ rpcLog' = Append(rpcLog, "get_minimum_balance_for_rent_exemption")
    /\ Goto(IF ok THEN Ctl("send", "create", CreateTransaction(TRUE), NoResult, NoResult)
                  ELSE FinishStage(Failure("rpc error")))
    /\ UNCHANGED <<tcall, quote, sig, confirmedSigs, sent, ncalls,
                   ammVars, curveVars, slipVars, pureVars, poolVars, eventVars, listenVars, cacheVars>>

(* buy / sell on chain: _get_bonding_curve_account answers, then the quote, *)
(* the bound and the transaction are computed up to _send_transaction.     *)
FetchAccount(found) ==
    /\ pc = "fetch"
    /\ rpcLog' = Append(rpcLog, "get_account_info")
    /\ IF ~found
       THEN /\ Goto(FinishStage(Failure("Failed to get bonding curve account")))
            /\ quote' = quote
       ELSE LET account == parse_bonding_curve_data
                amount == IF tcall.op = "sell" THEN tcall.amount
                          ELSE sol_to_lamports(tcall.amount)
                expected == IF tcall.op = "sell"
                            THEN get_sell_price(amount, account.real_sol_reserves,
                                                account.real_token_reserves)
                            ELSE get_buy_price(amount, account.real_sol_reserves,
                                               account.real_token_reserves)
            IN  IF ~Returned(expected)
                THEN /\ Goto(FinishStage(Failure(expected.msg)))
                     /\ quote' = quote
                ELSE \E b \in calculate_slippage_amount(
                                  expected.value, tcall.slippage_basis_points, TRUE) :
                       /\ quote' = [computed |-> TRUE, expected |-> expected.value,
                                    bound |-> b.value]
                       /\ Goto(Ctl("send", "trade",
                                   IF tcall.op = "sell"
                                   THEN build_sell_transaction(amount, b.value)
                                   ELSE build_buy_transaction(amount, b.value),
                                   NoResult, createRes))
    /\ UNCHANGED <<tcall, sig, confirmedSigs, sent, ncalls,
                   ammVars, curveVars, slipVars, pureVars, poolVars, eventVars, listenVars, cacheVars>>

(* _send_transaction: get_latest_blockhash, then send_transaction. Every   *)
(* failure is re-raised as TransactionError("Transaction failed: ...").    *)
SendOutcomes == {"sent", "blockhash_error", "send_error", "no_value"}

SendTransaction(outcome) ==
    /\ pc = "send"
    /\ rpcLog' = IF outcome = "blockhash_error"
                 THEN Append(rpcLog, "get_latest_blockhash")
                 ELSE rpcLog \o <<"get_latest_blockhash", "send_transaction">>
    /\ sent' = IF outcome # "blockhash_error" /\ stage = "trade" /\ quote.computed
               THEN sent \cup {[op |-> tcall.op,
                                amount |-> IF tcall.op = "sell" THEN tcall.amount
                                           ELSE sol_to_lamports(tcall.amount),
                                bound |-> quote.bound,
                                request |-> tx]}
               ELSE sent
    /\ IF outcome = "sent"
       THEN /\ sig' = (IF stage = "create" THEN "sigCreate" ELSE "sigTrade")
            /\ pc' = "confirm"
            /\ UNCHANGED <<stage, tx, result, createRes>>
       ELSE /\ sig' = sig
            /\ Goto(FinishStage(Failure("Transaction failed")))
    /\ UNCHANGED <<tcall, quote, confirmedSigs, ncalls, ammVars, curveVars, slipVars, pureVars, poolVars, eventVars, listenVars, cacheVars>>

(* wait_for_confirmation(self.rpc_client, signature, commitment) answers. *)
Confirm(poll) ==
    LET confirmed == wait_for_confirmation(poll, WAIT_TIMEOUT) IN
    /\ pc = "confirm"
    /\ rpcLog' = Append(rpcLog, "get_signature_statuses")
    /\ confirmedSigs' = IF Returned(confirmed) /\ confirmed.value
                        THEN confirmedSigs \cup {sig} ELSE confirmedSigs
    /\ Goto(FinishStage(
         IF ~Returned(confirmed) THEN Failure(confirmed.msg)
         ELSE IF stage = "create"
              THEN TransactionResult(confirmed.value,
                                     IF confirmed.value THEN sig ELSE "None",
                                     IF confirmed.value THEN "None"
                                                        ELSE "Token creation failed")
              ELSE IF ~confirmed.value
                   THEN Failure("Transaction not confirmed within timeout")
                   ELSE TransactionResult(TRUE, sig, "None")))
    /\ UNCHANGED <<tcall, quote, sig, sent, ncalls, ammVars, curveVars, slipVars, pureVars, poolVars, eventVars, listenVars, cacheVars>>

NextTrade ==
    \/ \E call \in TradeArgs : TradeStart(call)
    \/ \E resp \in PortalOutcomes : PortalRespond(resp)
    \/ \E ok \in BOOLEAN : RentRespond(ok)
    \/ \E found \in BOOLEAN : FetchAccount(found)
    \/ \E outcome \in SendOutcomes : SendTransaction(outcome)
    \/ \E poll \in PollOutcomes : Confirm(poll)

----------------------------------------------------------------------------
(* amm.py: LiquidityPool and AMMManager                                     *)

MaxInitialReserve == 2 \* largest reserve a pool is constructed with
MaxPoolReserve == 3   \* largest reserve update_reserves sets, and largest amount routed

(* The token mints of the model, the (token_a_mint, token_b_mint) pairs of *)
(* its pools, and the identifiers pools are registered under.              *)
Mints == {"A", "B", "C"}
PoolPairs == {<<"A", "B">>, <<"B", "A">>, <<"A", "C">>}
PoolIds == {"p1", "p2"}

(* LiquidityPool.__init__ *)
LiquidityPool(token_a_mint, token_b_mint, reserve_a, reserve_b, total_supply, fee_basis_points) ==
    [token_a_mint |-> token_a_mint, token_b_mint |-> token_b_mint,
     reserve_a |-> reserve_a, reserve_b |-> reserve_b,
     total_supply |-> total_supply, fee_basis_points |-> fee_basis_points,
     k |-> reserve_a * reserve_b]

update_reserves_StaleK(pool, new_reserve_a, new_reserve_b) ==
    [pool EXCEPT !.reserve_a = new_reserve_a, !.reserve_b = new_reserve_b]

(* LiquidityPool.update_reserves *)
update_reserves(pool, new_reserve_a, new_reserve_b) ==
    [pool EXCEPT !.reserve_a = new_reserve_a, !.reserve_b = new_reserve_b,
                 !.k = new_reserve_a * new_reserve_b]

(* LiquidityPool.get_price; the float quotient is kept as a fraction. *)
get_price(pool, token_a_to_b) ==
    IF pool.reserve_a <= 0 \/ pool.reserve_b <= 0 THEN Fraction(0, 1)
    ELSE IF token_a_to_b THEN Fraction(pool.reserve_b, pool.reserve_a)
    ELSE Fraction(pool.reserve_a, pool.reserve_b)

(* LiquidityPool.get_pool_info *)
get_pool_info(pool) ==
    [token_a_mint |-> pool.token_a_mint, token_b_mint |-> pool.token_b_mint,
     reserve_a |-> pool.reserve_a, reserve_b |-> pool.reserve_b,
     total_supply |-> pool.total_supply,
     fee_basis_points |-> pool.fee_basis_points,
     price_a_to_b |-> get_price(pool, TRUE),
     price_b_to_a |-> get_price(pool, FALSE),
     constant_product |-> pool.k]

(* AMMCalculator.calculate_price_impact: it quotes with the default fee,   *)
(* and the quote's errors propagate. The float percentage                  *)
(* abs(price_after - price_before) / price_before * 100, capped at 100, is *)
(* kept as a fraction.                                                     *)
calculate_price_impact(amount_in, reserve_in, reserve_out) ==
    IF reserve_in <= 0 \/ reserve_out <= 0 THEN Ok(Fraction(0, 1))
    ELSE LET out == get_amount_out(amount_in, reserve_in, reserve_out, {}) IN
         IF ~Returned(out) THEN out
         ELSE LET new_reserve_in == reserve_in + amount_in
                  new_reserve_out == reserve_out - out.value
                  diff == new_reserve_out * reserve_in - reserve_out * new_reserve_in
                  num == (IF diff >= 0 THEN diff ELSE -diff) * 100
                  den == new_reserve_in * reserve_out
              IN  IF new_reserve_in <= 0 \/ new_reserve_out <= 0
                  THEN Ok(Fraction(100, 1))
                  ELSE IF num > 100 * den THEN Ok(Fraction(100, 1))
                  ELSE Ok(Fraction(num, den))

(* LiquidityPool.simulate_swap: the quote against the pool's reserves in   *)
(* the direction asked, with the pool's fee; an error of get_amount_out or *)
(* of calculate_price_impact propagates to the caller.                     *)
simulate_swap(pool, amount_in, token_a_to_b) ==
    LET reserve_in == IF token_a_to_b THEN pool.reserve_a ELSE pool.reserve_b
        reserve_out == IF token_a_to_b THEN pool.reserve_b ELSE pool.reserve_a
        out == get_amount_out(amount_in, reserve_in, reserve_out,
                              {pool.fee_basis_points})
        impact == calculate_price_impact(amount_in, reserve_in, reserve_out)
    IN  IF ~Returned(out) THEN out
        ELSE IF ~Returned(impact) THEN impact
        ELSE Ok([amount_out |-> out.value,
                 price_impact |-> impact.value,
                 effective_price |-> Fraction(out.value, amount_in),
                 fee_amount |-> (amount_in * pool.fee_basis_points)
                                  \div BPS_DENOMINATOR])

(* best_route = None, as a route of type "None". *)
NoRoute ==
    [type |-> "None", pools |-> <<>>, amount_out |-> 0,
     price_impact |-> Fraction(0, 1), route |-> <<>>]

PoolMatches_AnyPool(pool, token_in, token_out) == TRUE

(* The test of find_best_route: the pool trades the pair, in either        *)
(* orientation.                                                            *)
PoolMatches(pool, token_in, token_out) ==
    \/ pool.token_a_mint = token_in /\ pool.token_b_mint = token_out
    \/ pool.token_b_mint = token_in /\ pool.token_a_mint = token_out

(* The loop of find_best_route from the i-th registered pool on, with the  *)
(* best route found so far (best_amount_out is its amount_out, 0 for       *)
(* None). A simulation that raises ends the call with that error.          *)
RECURSIVE RouteFrom(_, _, _, _, _, _)
RouteFrom(registered, i, token_in, token_out, amount_in, best_route) ==
    IF i > Len(registered) THEN Ok(best_route)
    ELSE LET pool_id == registered[i].pool_id
             pool == registered[i].pool
         IN  IF ~PoolMatches(pool, token_in, token_out)
             THEN RouteFrom(registered, i + 1, token_in, token_out,
                            amount_in, best_route)
             ELSE LET token_a_to_b == pool.token_a_mint = token_in
                      simulation == simulate_swap(pool, amount_in, token_a_to_b)
                  IN  IF ~Returned(simulation) THEN simulation
                      ELSE RouteFrom(registered, i + 1, token_in, token_out,
                             amount_in,
                             IF simulation.value.amount_out > best_route.amount_out
                             THEN [type |-> "direct", pools |-> <<pool_id>>,
                                   amount_out |-> simulation.value.amount_out,
                                   price_impact |-> simulation.value.price_impact,
                                   route |-> <<token_in, token_out>>]
                             ELSE best_route)

(* AMMManager.find_best_route *)
find_best_route(registered, token_in, token_out, amount_in) ==
    RouteFrom(registered, 1, token_in, token_out, amount_in, NoRoute)

NoPoolCall == [fn |-> "none", args |-> <<>>, res |-> Ok(0)]

PoolInit ==
    /\ pools = <<>>
    /\ poolCall = NoPoolCall

(* The position of pool_id in the dictionary, 0 when it is not a key. *)
PoolIndex(pool_id) ==
    IF \E i \in 1..Len(pools) : pools[i].pool_id = pool_id
    THEN CHOOSE i \in 1..Len(pools) : pools[i].pool_id = pool_id
    ELSE 0

(* The manager's queries read the pools and change nothing, so a behaviour *)
(* registers and updates pools first and then makes one query.             *)

(* AMMManager.add_pool(pool_id, LiquidityPool(a, b, reserve_a, reserve_b)):*)
(* assigning to an existing key keeps the key's position.                  *)
AddPool(pool_id, pool) ==
    /\ poolCall = NoPoolCall
    /\ pools' = IF PoolIndex(pool_id) = 0
                THEN Append(pools, [pool_id |-> pool_id, pool |-> pool])
                ELSE [pools EXCEPT ![PoolIndex(pool_id)].pool = pool]
    /\ UNCHANGED <<poolCall, ammVars, curveVars, slipVars, tradeVars, pureVars, eventVars, listenVars, cacheVars>>

(* get_pool(pool_id).update_reserves(new_reserve_a, new_reserve_b) *)
UpdateReserves(pool_id, new_reserve_a, new_reserve_b) ==
    /\ poolCall = NoPoolCall
    /\ PoolIndex(pool_id) # 0
    /\ pools' = [pools EXCEPT ![PoolIndex(pool_id)].pool =
                   update_reserves(@, new_reserve_a, new_reserve_b)]
    /\ UNCHANGED <<poolCall, ammVars, curveVars, slipVars, tradeVars, pureVars, eventVars, listenVars, cacheVars>>

(* get_pool(pool_id).get_pool_info() *)
GetPoolInfo(pool_id) ==
    /\ poolCall = NoPoolCall
    /\ PoolIndex(pool_id) # 0
    /\ poolCall' = [fn |-> "get_pool_info", args |-> <<pool_id>>,
                    res |-> Ok(get_pool_info(pools[PoolIndex(pool_id)].pool))]
    /\ UNCHANGED <<pools, ammVars, curveVars, slipVars, tradeVars, pureVars, eventVars, listenVars, cacheVars>>

FindBestRoute(token_in, token_out, amount_in) ==
    /\ poolCall = NoPoolCall
    /\ poolCall' = [fn |-> "find_best_route",
                    args |-> <<token_in, token_out, amount_in>>,
                    res |-> find_best_route(pools, token_in, token_out, amount_in)]
    /\ UNCHANGED <<pools, ammVars, curveVars, slipVars, tradeVars, pureVars, eventVars, listenVars, cacheVars>>

NextPool ==
    \/ \E pool_id \in PoolIds, pair \in PoolPairs,
          reserve_a \in 0..MaxInitialReserve, reserve_b \in 0..MaxInitialReserve :
          AddPool(pool_id, LiquidityPool(pair[1], pair[2], reserve_a, reserve_b,
                                         0, FEE_BASIS_POINTS))
    \/ \E pool_id \in PoolIds,
          reserve_a \in 0..MaxPoolReserve, reserve_b \in 0..MaxPoolReserve :
          UpdateReserves(pool_id, reserve_a, reserve_b)
    \/ \E pool_id \in PoolIds : GetPoolInfo(pool_id)
    \/ \E token_in \in Mints, token_out \in Mints, amount_in \in 0..MaxPoolReserve :
          FindBestRoute(token_in, token_out, amount_in)

----------------------------------------------------------------------------
(* events.py: EventManager                                                  *)

MaxLogTokens == 3     \* longest log line, in tokens
MaxListeners == 3     \* add_listener calls on one EventManager

(* A log line is a string, kept as the sequence of its pieces: the pieces  *)
(* the parser looks for, and a space. A line can also be a value that is   *)
(* not a string.                                                           *)
LogTokens == {"Program log:", " ", "CreateEvent", "TradeEvent", "CompleteEvent"}
NotAString == <<"<int>">>
LogLines ==
    UNION {[1..n -> LogTokens] : n \in 0..MaxLogTokens} \cup {NotAString}

(* substring in log *)
Contains(log, piece) == \E i \in 1..Len(log) : log[i] = piece

(* The positions where 'Program log: ' (with its space) occurs in log. *)
PrefixAt(log) ==
    {i \in 1..(Len(log) - 1) : log[i] = "Program log:" /\ log[i + 1] = " "}

(* log.split('Program log: ', 1)[1]: what follows the first occurrence;    *)
(* without an occurrence the split has one element and [1] raises.         *)
LogData(log) ==
    IF PrefixAt(log) = {} THEN Raise("IndexError", "list index out of range")
    ELSE LET i == CHOOSE j \in PrefixAt(log) : \A h \in PrefixAt(log) : j <= h
         IN  Ok(SubSeq(log, i + 2, Len(log)))

(* The dictionaries of _parse_create_event, _parse_trade_event and         *)
(* _parse_complete_event: every field is a placeholder, and none has a     *)
(* slot or a signature. The name, symbol, uri, amounts and timestamp are   *)
(* left out. None is the event data of type "None".                        *)
EventData(event_type) ==
    [event_type |-> event_type, mint |-> "placeholder", user |-> "placeholder"]
NoEventData == [event_type |-> "None", mint |-> "None", user |-> "None"]

(* The loop over the logs, from the i-th line on. *)
RECURSIVE ParseLogsFrom(_, _)
ParseLogsFrom(logs, i) ==
    IF i > Len(logs) THEN Ok(NoEventData)
    ELSE LET log == logs[i] IN
         IF log = NotAString
         THEN Raise("TypeError", "argument of type 'int' is not iterable")
         ELSE IF ~Contains(log, "Program log:") THEN ParseLogsFrom(logs, i + 1)
         ELSE LET log_data == LogData(log) IN
              IF ~Returned(log_data) THEN log_data
              ELSE IF Contains(log_data.value, "CreateEvent")
                   THEN Ok(EventData("createEvent"))
              ELSE IF Contains(log_data.value, "TradeEvent")
                   THEN Ok(EventData("tradeEvent"))
              ELSE IF Contains(log_data.value, "CompleteEvent")
                   THEN Ok(EventData("completeEvent"))
              ELSE ParseLogsFrom(logs, i + 1)

(* A message is a dict or an object; its result is missing, None, or a     *)
(* dict or an object whose logs are missing, None, or a list of lines.     *)
Message(shape, result_kind, logs_kind, lines) ==
    [shape |-> shape,
     result |-> [kind |-> result_kind,
                 logs |-> [kind |-> logs_kind, lines |-> lines]]]

(* EventManager._parse_log_message: message.get('result') or               *)
(* getattr(message, 'result', None); when it is truthy, its logs           *)
(* (default []) are scanned. Every exception of the body is caught and     *)
(* logged, and the call returns None.                                      *)
parse_log_message(message) ==
    LET reply == message.result
        body == IF reply.kind \in {"missing", "None"} THEN Ok(NoEventData)
                ELSE IF reply.logs.kind = "missing" THEN Ok(NoEventData)
                ELSE IF reply.logs.kind = "None"
                THEN Raise("TypeError", "'NoneType' object is not iterable")
                ELSE ParseLogsFrom(reply.logs.lines, 1)
    IN  IF Returned(body) THEN body ELSE Ok(NoEventData)

(* The messages _parse_log_message is called with: every shape of message  *)
(* and result, and logs of up to two lines, the first of a two-line list   *)
(* being one of a few lines that the loop skips or fails on.               *)
FirstLines ==
    {<<>>, <<" ">>, <<"Program log:">>, <<"Program log:", " ">>, NotAString}

Logs ==
    {<<>>} \cup {<<log>> : log \in LogLines}
           \cup {<<first, log>> : first \in FirstLines, log \in LogLines}

ParsedMessages ==
    {Message(shape, kind, "missing", <<>>) :
        shape \in {"dict", "object"}, kind \in {"missing", "None", "dict", "object"}}
    \cup {Message(shape, kind, "None", <<>>) :
        shape \in {"dict", "object"}, kind \in {"dict", "object"}}
    \cup {Message(shape, kind, "list", lines) :
        shape \in {"dict", "object"}, kind \in {"dict", "object"}, lines \in Logs}

PureParseLogMessage ==
    /\ pureCall = NoPureCall
    /\ \E message \in ParsedMessages :
          pureCall' = PureCall("_parse_log_message", <<message>>,
                               parse_log_message(message), "none")
    /\ UNCHANGED <<ammVars, curveVars, slipVars, tradeVars, poolVars, eventVars, listenVars, cacheVars>>

(* solana.publickey.PublicKey(value) of a string: the base58 decoding of   *)
(* a 32-byte key, ValueError for any other string. "placeholder" is not    *)
(* one (l is not a base58 digit, and it is not 32 bytes long).             *)
ValidPublicKeys ==
    {"11111111111111111111111111111112", "11111111111111111111111111111113"}

PublicKey(value) ==
    IF value \in ValidPublicKeys THEN Ok(value)
    ELSE Raise("ValueError", "invalid public key input")

EventTypes == {"createEvent", "tradeEvent", "completeEvent"}

(* EventManager._create_event_object *)
create_event_object(event_type, event_data) ==
    IF event_type \in EventTypes
    THEN LET mint == PublicKey(event_data.mint)
             user == PublicKey(event_data.user)
         IN  IF ~Returned(mint) THEN mint
             ELSE IF ~Returned(user) THEN user
             ELSE Ok([type |-> event_type, mint |-> mint.value, user |-> user.value])
    ELSE Raise("PumpFunError", "Unknown event type")

(* A listener: its id, its event type and what its callback does when it   *)
(* is called: "returns", "raises", or "removes" for a callback that calls  *)
(* remove_listener with its own id and returns (a one-shot listener).      *)
Listener(listener_id, event_type, callback) ==
    [listener_id |-> listener_id, event_type |-> event_type, callback |-> callback]

(* The callback invocations of EventManager._process_message, in order:    *)
(* for every listener of the message's event type the event object is      *)
(* built and the callback called with (event_obj, slot, signature), slot   *)
(* and signature being event_data.get("slot", 0) and                       *)
(* event_data.get("signature", ""). An exception of the construction or of *)
(* the callback is caught and logged, and the loop goes on. The loop is    *)
(* "for listener_id, listener in self.listeners.items()": once a callback  *)
(* has changed the size of the dict, the next step of the iteration raises *)
(* RuntimeError outside the inner try, the outer handler logs it and the   *)
(* listeners not yet visited are not called.                               *)
RECURSIVE InvocationsFrom(_, _, _)
InvocationsFrom(registered, i, event_data) ==
    IF i > Len(registered) THEN <<>>
    ELSE LET listener == registered[i]
             event_obj == create_event_object(event_data.event_type, event_data)
             called == listener.event_type = event_data.event_type /\ Returned(event_obj)
             resized == called /\ listener.callback = "removes"
             rest == IF resized THEN <<>>
                     ELSE InvocationsFrom(registered, i + 1, event_data)
         IN  IF called
             THEN <<[listener_id |-> listener.listener_id,
                     event |-> event_obj.value, slot |-> 0, signature |-> "",
                     raised |-> listener.callback = "raises",
                     removed |-> resized]>> \o rest
             ELSE rest

process_message(registered, message) ==
    LET event_data == parse_log_message(message).value
    IN  [message |-> message,
         event_type |-> event_data.event_type,
         res |-> Ok(0),
         invoked |-> IF event_data.event_type = "None" THEN <<>>
                     ELSE InvocationsFrom(registered, 1, event_data)]

NoEvCall ==
    [message |-> Message("dict", "missing", "missing", <<>>),
     event_type |-> "none", res |-> Ok(0), invoked |-> <<>>]

(* EventManager.__init__ *)
EventInit ==
    /\ listeners = <<>>
    /\ next_id = 1
    /\ issued = <<>>
    /\ evCall = NoEvCall
    /\ evOp = [op |-> "none", listener_id |-> 0]

add_listener_ReusesFreedId(registered, id) ==
    IF \E i \in 1..id : \A j \in 1..Len(registered) : registered[j].listener_id # i
    THEN CHOOSE i \in 1..id :
           /\ \A j \in 1..Len(registered) : registered[j].listener_id # i
           /\ \A h \in 1..(i - 1) :
                \E j \in 1..Len(registered) : registered[j].listener_id = h
    ELSE id

(* The id add_listener gives the new listener: listener_id = self.next_id *)
add_listener(registered, id) == id

(* EventManager.add_listener(event_type, callback); evCall describes the   *)
(* last message processed since the listeners last changed.                *)
AddListener(event_type, callback) ==
    /\ next_id <= MaxListeners
    /\ LET listener_id == add_listener(listeners, next_id) IN
         /\ next_id' = next_id + 1
         /\ listeners' = Append(listeners, Listener(listener_id, event_type, callback))
         /\ issued' = Append(issued, listener_id)
         /\ evOp' = [op |-> "add_listener", listener_id |-> listener_id]
    /\ evCall' = NoEvCall
    /\ UNCHANGED <<ammVars, curveVars, slipVars, tradeVars, pureVars, poolVars, listenVars, cacheVars>>

remove_listener_ByPosition(registered, listener_id) ==
    SelectSeq(registered, LAMBDA l : l.listener_id < listener_id)

(* The registry after remove_listener(listener_id):                        *)
(* "if listener_id in self.listeners: del self.listeners[listener_id]",    *)
(* an unknown id is logged.                                                *)
remove_listener(registered, listener_id) ==
    SelectSeq(registered, LAMBDA l : l.listener_id # listener_id)

(* EventManager.remove_listener(listener_id) *)
RemoveListener(listener_id) ==
    /\ listeners' = remove_listener(listeners, listener_id)
    /\ evOp' = [op |-> "remove_listener", listener_id |-> listener_id]
    /\ evCall' = NoEvCall
    /\ UNCHANGED <<next_id, issued, ammVars, curveVars, slipVars, tradeVars, pureVars, poolVars, listenVars, cacheVars>>

(* The messages delivered to _process_message in the model. *)
ProcessedMessages ==
    {Message("dict", "None", "missing", <<>>),
     Message("dict", "dict", "list", <<<<"Program log:", " ", "CreateEvent">>>>),
     Message("object", "dict", "list", <<<<"Program log:", " ", "TradeEvent">>>>),
     Message("dict", "object", "list", <<<<"Program log:", " ", "CompleteEvent">>>>),
     Message("dict", "dict", "list", <<<<" ">>, <<"Program log:", " ", "TradeEvent">>>>),
     Message("dict", "dict", "list", <<NotAString>>)}

(* EventManager._process_message(message); the callbacks that remove      *)
(* their own listener have left the registry when it returns.              *)
ProcessMessage(message) ==
    /\ evCall' = process_message(listeners, message)
    /\ listeners' = SelectSeq(listeners, LAMBDA l :
                        \A k \in 1..Len(evCall'.invoked) :
                           ~(evCall'.invoked[k].listener_id = l.listener_id
                              /\ evCall'.invoked[k].removed))
    /\ evOp' = [op |-> "process_message", listener_id |-> 0]
    /\ UNCHANGED <<next_id, issued,
                   ammVars, curveVars, slipVars, tradeVars, pureVars, poolVars, listenVars, cacheVars>>

NextEvents ==
    \/ \E event_type \in EventTypes, callback \in {"returns", "raises", "removes"} :
          AddListener(event_type, callback)
    \/ \E listener_id \in 1..(MaxListeners + 1) : RemoveListener(listener_id)
    \/ \E message \in ProcessedMessages : ProcessMessage(message)

----------------------------------------------------------------------------
(* EventManager: the listen loop (events.py) *)

MaxTasks == 3      \* _listen_loop tasks created on one EventManager
MaxMessages == 2   \* messages a listen loop hands to _process_message

(* A _listen_loop task: the await it is suspended at ("connect" from its   *)
(* creation until logs_subscribe has returned, "receive" in the async for, *)
(* "sleep" in the handler's asyncio.sleep(5)) or how it ended ("done" when *)
(* the coroutine returned, "cancelled" when CancelledError left it),       *)
(* whether cancel() was requested of it, and the websocket it opened.      *)
Task(at, cancel, socket) == [at |-> at, cancel |-> cancel, socket |-> socket]

Suspended(task) == task.at \in {"connect", "receive", "sleep"}

start_listening_NoGuard(listening, ts, lt) ==
    [is_listening |-> TRUE,
     tasks |-> Append(ts, Task("connect", FALSE, "none")),
     listen_task |-> Len(ts) + 1]

(* EventManager.start_listening(): "if self.is_listening: warning; return",*)
(* otherwise is_listening = True and listen_task = create_task(the loop).  *)
start_listening(listening, ts, lt) ==
    IF listening
    THEN [is_listening |-> listening, tasks |-> ts, listen_task |-> lt]
    ELSE [is_listening |-> TRUE,
          tasks |-> Append(ts, Task("connect", FALSE, "none")),
          listen_task |-> Len(ts) + 1]

(* The task after "except Exception" caught an error of the loop: it       *)
(* sleeps when is_listening, and returns otherwise. Leaving the            *)
(* "async with" closed the websocket.                                      *)
AfterError(task, listening) ==
    Task(IF listening THEN "sleep" ELSE "done", task.cancel,
         IF task.socket = "open" THEN "closed" ELSE task.socket)

(* EventManager.__init__ *)
ListenInit ==
    /\ is_listening = FALSE
    /\ listen_task = 0
    /\ websocket_connection = 0
    /\ tasks = <<>>
    /\ dispatched = <<>>

(* await start_listening() made by the application *)
StartListening ==
    LET next == start_listening(is_listening, tasks, listen_task) IN
    /\ Len(next.tasks) <= MaxTasks
    /\ is_listening' = next.is_listening
    /\ tasks' = next.tasks
    /\ listen_task' = next.listen_task
    /\ UNCHANGED <<websocket_connection, dispatched, ammVars, curveVars, slipVars,
                   tradeVars, pureVars, poolVars, eventVars, cacheVars>>

(* stop_listening(): is_listening = False, listen_task.cancel() (which     *)
(* does nothing to a task that has ended) and the close of the websocket   *)
(* last stored in websocket_connection.                                    *)
StopListening ==
    /\ is_listening' = FALSE
    /\ tasks' = [i \in 1..Len(tasks) |->
                   Task(tasks[i].at,
                        tasks[i].cancel \/ (i = listen_task /\ Suspended(tasks[i])),
                        IF i = websocket_connection /\ tasks[i].socket = "open"
                        THEN "closed" ELSE tasks[i].socket)]
    /\ UNCHANGED <<listen_task, websocket_connection, dispatched, ammVars, curveVars,
                   slipVars, tradeVars, pureVars, poolVars, eventVars, cacheVars>>

(* The event loop resumes a task cancel() was requested of: CancelledError *)
(* is raised at its await; it is a BaseException (Python >= 3.8, setup.py) *)
(* so "except Exception" does not catch it, and the task ends.             *)
TaskCancelled(i) ==
    /\ i <= Len(tasks)
    /\ Suspended(tasks[i])
    /\ tasks[i].cancel
    /\ tasks' = [tasks EXCEPT ![i] =
                   Task("cancelled", TRUE,
                        IF tasks[i].socket = "open" THEN "closed" ELSE tasks[i].socket)]
    /\ UNCHANGED <<is_listening, listen_task, websocket_connection, dispatched, ammVars,
                   curveVars, slipVars, tradeVars, pureVars, poolVars, eventVars, cacheVars>>

(* _listen_loop up to the async for: connect(self.websocket_url), the      *)
(* store of the websocket and logs_subscribe.                              *)
TaskConnect(i, outcome) ==
    /\ i <= Len(tasks)
    /\ tasks[i].at = "connect"
    /\ ~tasks[i].cancel
    /\ websocket_connection' = IF outcome = "connect_error" THEN websocket_connection ELSE i
    /\ tasks' = [tasks EXCEPT ![i] =
                   CASE outcome = "subscribed" -> Task("receive", FALSE, "open")
                     [] outcome = "subscribe_error" ->
                           AfterError(Task("connect", FALSE, "open"), is_listening)
                     [] OTHER -> AfterError(tasks[i], is_listening)]
    /\ UNCHANGED <<is_listening, listen_task, dispatched, ammVars, curveVars, slipVars,
                   tradeVars, pureVars, poolVars, eventVars, cacheVars>>

(* One step of "async for message in websocket": a message arrives (the    *)
(* loop breaks when is_listening is false and awaits _process_message      *)
(* otherwise), the connection closes normally and the iteration ends, or   *)
(* the connection fails with an exception.                                 *)
TaskReceive(i, outcome) ==
    /\ i <= Len(tasks)
    /\ tasks[i].at = "receive"
    /\ ~tasks[i].cancel
    /\ (outcome = "message" /\ is_listening) => Len(dispatched) < MaxMessages
    /\ dispatched' = IF outcome = "message" /\ is_listening
                     THEN Append(dispatched, [task |-> i, is_listening |-> is_listening,
                                              cancel |-> tasks[i].cancel])
                     ELSE dispatched
    /\ tasks' = [tasks EXCEPT ![i] =
                   CASE outcome = "message" /\ is_listening -> tasks[i]
                     [] outcome = "error" -> AfterError(tasks[i], is_listening)
                     [] OTHER -> Task("done", FALSE, "closed")]
    /\ UNCHANGED <<is_listening, listen_task, websocket_connection, ammVars, curveVars,
                   slipVars, tradeVars, pureVars, poolVars, eventVars, cacheVars>>

(* The handler after asyncio.sleep(5):                                     *)
(* "if self.is_listening: await self.start_listening()", then the task     *)
(* returns.                                                                *)
TaskWake(i) ==
    /\ i <= Len(tasks)
    /\ tasks[i].at = "sleep"
    /\ ~tasks[i].cancel
    /\ LET next == IF is_listening
                   THEN start_listening(is_listening, tasks, listen_task)
                   ELSE [is_listening |-> is_listening, tasks |-> tasks,
                         listen_task |-> listen_task]
       IN  /\ Len(next.tasks) <= MaxTasks
           /\ is_listening' = next.is_listening
           /\ listen_task' = next.listen_task
           /\ tasks' = [next.tasks EXCEPT ![i].at = "done"]
    /\ UNCHANGED <<websocket_connection, dispatched, ammVars, curveVars, slipVars,
                   tradeVars, pureVars, poolVars, eventVars, cacheVars>>

NextListen ==
    \/ StartListening
    \/ StopListening
    \/ \E i \in 1..MaxTasks : TaskCancelled(i)
    \/ \E i \in 1..MaxTasks, outcome \in {"subscribed", "connect_error", "subscribe_error"} :
          TaskConnect(i, outcome)
    \/ \E i \in 1..MaxTasks, outcome \in {"message", "closed", "error"} :
          TaskReceive(i, outcome)
    \/ \E i \in 1..MaxTasks : TaskWake(i)

----------------------------------------------------------------------------
(* GlobalAccountManager: the cache of the global account (global_account.py) *)

CACHE_DURATION == 2   \* seconds a cached value is served (30 in the source)
MaxElapsed == 4       \* seconds that pass after the manager was constructed
MaxLatency == 1       \* seconds one get_account_info takes

(* _cached_data: None, or the GlobalAccountData parsed from an account     *)
(* that was read at the second read_at.                                    *)
NoData == [present |-> FALSE, read_at |-> 0]

CacheIsFresh_IgnoresAge(force_refresh, cached, timestamp, current_time) ==
    ~force_refresh /\ cached.present

(* The cache check of fetch_global_account_data:                           *)
(* not force_refresh and self._cached_data and                             *)
(* current_time - self._cache_timestamp < self.CACHE_DURATION              *)
CacheIsFresh(force_refresh, cached, timestamp, current_time) ==
    /\ ~force_refresh
    /\ cached.present
    /\ current_time - timestamp < CACHE_DURATION

(* What get_account_info and the parse give: an account that parses, no    *)
(* account (account_info.value is None), an exception of the RPC client, or*)
(* data shorter than _parse_global_account_data accepts.                   *)
AccountOutcomes == {"account", "not_found", "rpc_error", "short_data"}

CacheCall(fn, force_refresh, current_time, rpc, res) ==
    [fn |-> fn, force_refresh |-> force_refresh, current_time |-> current_time,
     cached_before |-> cached_data, timestamp_before |-> cache_timestamp,
     after_clear |-> cacheCall.fn = "clear_cache", rpc |-> rpc, res |-> res]

(* GlobalAccountManager.__init__; time.time() is far past CACHE_DURATION.  *)
CacheInit ==
    /\ cached_data = NoData
    /\ cache_timestamp = 0
    /\ clock = CACHE_DURATION
    /\ cacheCall = [fn |-> "none", force_refresh |-> FALSE, current_time |-> 0,
                    cached_before |-> NoData, timestamp_before |-> 0,
                    after_clear |-> FALSE, rpc |-> FALSE, res |-> Ok(NoData)]

(* A second passes with no call in progress. *)
Tick ==
    /\ clock < CACHE_DURATION + MaxElapsed
    /\ clock' = clock + 1
    /\ UNCHANGED <<cached_data, cache_timestamp, cacheCall, ammVars, curveVars, slipVars,
                   tradeVars, pureVars, poolVars, eventVars, listenVars>>

(* await fetch_global_account_data(force_refresh): current_time is read    *)
(* before the cache check; a miss awaits get_account_info for `latency`    *)
(* seconds, and the account it returns was read no earlier than the call.  *)
(* Every failure is re-raised as NetworkError before the cache is touched. *)
FetchGlobalAccountData(force_refresh, outcome, latency) ==
    LET current_time == clock
        data == [present |-> TRUE, read_at |-> current_time]
    IN  IF CacheIsFresh(force_refresh, cached_data, cache_timestamp, current_time)
        THEN /\ outcome = "account"
             /\ latency = 0
             /\ cacheCall' = CacheCall("fetch_global_account_data", force_refresh,
                                       current_time, FALSE, Ok(cached_data))
             /\ UNCHANGED <<cached_data, cache_timestamp, clock, ammVars, curveVars,
                            slipVars, tradeVars, pureVars, poolVars, eventVars, listenVars>>
        ELSE /\ clock + latency <= CACHE_DURATION + MaxElapsed
             /\ clock' = clock + latency
             /\ cached_data' = IF outcome = "account" THEN data ELSE cached_data
             /\ cache_timestamp' = IF outcome = "account" THEN current_time
                                   ELSE cache_timestamp
             /\ cacheCall' = CacheCall("fetch_global_account_data", force_refresh,
                                       current_time, TRUE,
                                       IF outcome = "account" THEN Ok(data)
                                       ELSE Raise("NetworkError", outcome))
             /\ UNCHANGED <<ammVars, curveVars, slipVars, tradeVars, pureVars, poolVars,
                            eventVars, listenVars>>

(* GlobalAccountManager.clear_cache() *)
ClearCache ==
    /\ cached_data' = NoData
    /\ cache_timestamp' = 0
    /\ cacheCall' = CacheCall("clear_cache", FALSE, clock, FALSE, Ok(NoData))
    /\ UNCHANGED <<clock, ammVars, curveVars, slipVars, tradeVars, pureVars, poolVars,
                   eventVars, listenVars>>

NextCache ==
    \/ Tick
    \/ \E force_refresh \in BOOLEAN, outcome \in AccountOutcomes, latency \in 0..MaxLatency :
          FetchGlobalAccountData(force_refresh, outcome, latency)
    \/ ClearCache

----------------------------------------------------------------------------
(* The direct calls of the stateless functions *)

(* wait_for_confirmation(rpc_client, signature, commitment, timeout)       *)
(* called directly, with the outcome of its first poll.                    *)
PureWaitForConfirmation(poll, timeout) ==
    /\ pureCall = NoPureCall
    /\ pureCall' = PureCall("wait_for_confirmation", <<poll, timeout>>,
                            wait_for_confirmation(poll, timeout), "none")
    /\ UNCHANGED <<ammVars, curveVars, slipVars, tradeVars, poolVars, eventVars, listenVars, cacheVars>>

(* LiquidityPool(token_a, token_b, reserve_a, reserve_b, 0, fee).            *)
(* simulate_swap(amount_in, token_a_to_b) on a pool constructed with any   *)
(* reserves and with no fee, the default fee or half of the input as fee.  *)
PureSimulateSwap ==
    /\ pureCall = NoPureCall
    /\ \E reserve_a \in 0..MaxPoolReserve, reserve_b \in 0..MaxPoolReserve,
          fee \in {0, FEE_BASIS_POINTS, 5000},
          amount_in \in 0..MaxPoolReserve, token_a_to_b \in BOOLEAN :
          pureCall' = PureCall("simulate_swap",
                               <<reserve_a, reserve_b, fee, amount_in, token_a_to_b>>,
                               simulate_swap(LiquidityPool("A", "B", reserve_a, reserve_b,
                                                           0, fee),
                                             amount_in, token_a_to_b),
                               "none")
    /\ UNCHANGED <<ammVars, curveVars, slipVars, tradeVars, poolVars, eventVars, listenVars, cacheVars>>

NextPure ==
    \/ PureLpTokensToMint
    \/ PureSimulateSwap
    \/ \E a \in (-1)..MaxSolIn, rs \in SolReserveArgs, rt \in TokenReserveArgs :
          PureBuyPrice(a, rs, rt)
    \/ \E a \in (-1)..MaxTokensIn, rs \in SolReserveArgs, rt \in TokenReserveArgs :
          PureSellPrice(a, rs, rt)
    \/ \E rs \in SolReserveArgs, rt \in TokenReserveArgs : PureBuyOutPrice(rs, rt)
    \/ PureBuyAtBuyOutPrice
    \/ \E supply \in SupplyArgs, rt \in (-1)..(MaxSupply + 1) : PureProgress(supply, rt)
    \/ PureParseLogMessage
    \/ \E poll \in PollOutcomes, timeout \in {0, 1, WAIT_TIMEOUT} :
          PureWaitForConfirmation(poll, timeout)

----------------------------------------------------------------------------
CurveIdle ==
    /\ realSol = 0
    /\ realToken = 0
    /\ curveTrail = <<>>
    /\ globalAccount = GlobalAccountData(30, 1073)

SlipIdle ==
    slipCall = [fn |-> "none", expected_amount |-> 0, slippage_basis_points |-> 0,
                is_minimum |-> TRUE, res |-> Ok(0)]

PureIdle == pureCall = NoPureCall

PoolIdle == PoolInit

EventIdle == EventInit

ListenIdle == ListenInit

CacheIdle == CacheInit

AmmIdle ==
    /\ ammPool = [reserve_in |-> 0, reserve_out |-> 0, fee |-> {}]
    /\ ammTrail = <<>>

InitAMM == AmmInit /\ CurveIdle /\ SlipIdle /\ TradeInit /\ PureIdle /\ PoolIdle /\ EventIdle /\ ListenIdle /\ CacheIdle

SpecAMM == InitAMM /\ [][NextAMM]_vars

InitCurve == AmmIdle /\ CurveInit /\ SlipIdle /\ TradeInit /\ PureIdle /\ PoolIdle /\ EventIdle /\ ListenIdle /\ CacheIdle

SpecCurve == InitCurve /\ [][NextCurve]_vars

InitSlip == AmmIdle /\ CurveIdle /\ SlipIdle /\ TradeInit /\ PureIdle /\ PoolIdle /\ EventIdle /\ ListenIdle /\ CacheIdle

SpecSlip == InitSlip /\ [][NextSlip]_vars

InitTrade == AmmIdle /\ CurveIdle /\ SlipIdle /\ TradeInit /\ PureIdle /\ PoolIdle /\ EventIdle /\ ListenIdle /\ CacheIdle

SpecTrade == InitTrade /\ [][NextTrade]_vars

InitPure == AmmIdle /\ CurveIdle /\ SlipIdle /\ TradeInit /\ PureIdle /\ PoolIdle /\ EventIdle /\ ListenIdle /\ CacheIdle

SpecPure == InitPure /\ [][NextPure]_vars

InitPool == AmmIdle /\ CurveIdle /\ SlipIdle /\ TradeInit /\ PureIdle /\ PoolInit /\ EventIdle /\ ListenIdle /\ CacheIdle

SpecPool == InitPool /\ [][NextPool]_vars

InitEvents == AmmIdle /\ CurveIdle /\ SlipIdle /\ TradeInit /\ PureIdle /\ PoolIdle /\ EventInit /\ ListenIdle /\ CacheIdle

SpecEvents == InitEvents /\ [][NextEvents]_vars

InitListen == AmmIdle /\ CurveIdle /\ SlipIdle /\ TradeInit /\ PureIdle /\ PoolIdle /\ EventIdle /\ ListenInit /\ CacheIdle

SpecListen == InitListen /\ [][NextListen]_vars

(* The event loop resumes every task that is ready: a sleep that is over   *)
(* returns and a requested cancellation is delivered. Connections,         *)
(* messages and the application's calls are under no such obligation.      *)
SpecListenLive ==
    /\ InitListen
    /\ [][NextListen]_vars
    /\ \A i \in 1..MaxTasks : WF_vars(TaskWake(i)) /\ WF_vars(TaskCancelled(i))

InitCache == AmmIdle /\ CurveIdle /\ SlipIdle /\ TradeInit /\ PureIdle /\ PoolIdle /\ EventIdle /\ ListenIdle /\ CacheInit

SpecCache == InitCache /\ [][NextCache]_vars

----------------------------------------------------------------------------
(* Claims about AMMCalculator, checked under SpecAMM *)

IsOut(i) == i \in DOMAIN ammTrail /\ ammTrail[i].fn = "get_amount_out"
IsIn(i) == i \in DOMAIN ammTrail /\ ammTrail[i].fn = "get_amount_in"
ValidReserves == ammPool.reserve_in > 0 /\ ammPool.reserve_out > 0

(* The floor formula of the constant-product rule, at fee f. *)
AmountOutAt(x, f) ==
    (x * (BPS_DENOMINATOR - f) * ammPool.reserve_out)
        \div (ammPool.reserve_in * BPS_DENOMINATOR + x * (BPS_DENOMINATOR - f))

(* The inverse formula with the +1 rounding rule, at fee f. *)
AmountInAt(y, f) ==
    ((ammPool.reserve_in * y * BPS_DENOMINATOR)
        \div ((ammPool.reserve_out - y) * (BPS_DENOMINATOR - f))) + 1

(* C1: for amount_in > 0, reserves > 0 and fee_bps in [0, 10000) with a     *)
(* positive result, get_amount_out returns the floor formula computed with  *)
(* the fee_bps that was passed, fee_bps = 0 included.                       *)
C1_AmountOutUsesPassedFee ==
    \A i \in DOMAIN ammTrail :
        (/\ IsOut(i) /\ ammTrail[i].arg > 0 /\ ValidReserves
         /\ FeeInRange(ammPool.fee)
         /\ AmountOutAt(ammTrail[i].arg, FeeValue(ammPool.fee)) > 0)
        => /\ Returned(ammTrail[i].res)
           /\ ammTrail[i].res.value
                 = AmountOutAt(ammTrail[i].arg, FeeValue(ammPool.fee))

(* A round trip on the trail: get_amount_out(x), then get_amount_in of the *)
(* value it returned.                                                       *)
RoundTripIn ==
    /\ Len(ammTrail) = 2 /\ IsOut(1) /\ IsIn(2)
    /\ FeeAccepted(ammPool.fee)
    /\ Returned(ammTrail[1].res)
    /\ ammTrail[2].arg = ammTrail[1].res.value

(* x is the least input that yields its output: one unit less yields less,  *)
(* or nothing.                                                              *)
LeastInputForItsOutput(x) ==
    LET less == get_amount_out(x - 1, ammPool.reserve_in, ammPool.reserve_out,
                               ammPool.fee)
        this == get_amount_out(x, ammPool.reserve_in, ammPool.reserve_out,
                               ammPool.fee)
    IN  ~Returned(less) \/ less.value < this.value

(* C2 as stated: get_amount_in(get_amount_out(x)) >= x for all valid inputs. *)
C2_RoundTripAtLeastInput ==
    RoundTripIn =>
        /\ Returned(ammTrail[2].res)
        /\ ammTrail[2].res.value >= ammTrail[1].arg

(* C2 as amended: the round trip returns at least x when x is the least     *)
(* input yielding its output, and never more than x + 1.                    *)
C2_RoundTripBounds ==
    RoundTripIn =>
        /\ Returned(ammTrail[2].res)
        /\ ammTrail[2].res.value <= ammTrail[1].arg + 1
        /\ LeastInputForItsOutput(ammTrail[1].arg)
              => ammTrail[2].res.value >= ammTrail[1].arg

C2_Witness ==
    /\ RoundTripIn
    /\ Returned(ammTrail[2].res)
    /\ ammTrail[1].arg > 1
    /\ LeastInputForItsOutput(ammTrail[1].arg)
    /\ ammTrail[2].res.value = ammTrail[1].arg

(* C3: for reserves > 0, fee f in [0, 10000) and 0 < y < reserve_out,       *)
(* get_amount_in(y) is floor(r_in*y*10000 / ((r_out-y)*(10000-f))) + 1 and  *)
(* paying it obtains at least y: get_amount_out(get_amount_in(y)) >= y.     *)
C3_NeverUnderPays ==
    (/\ IsIn(1) /\ ValidReserves /\ FeeInRange(ammPool.fee)
     /\ ammTrail[1].arg > 0 /\ ammTrail[1].arg < ammPool.reserve_out)
    => /\ Returned(ammTrail[1].res)
       /\ ammTrail[1].res.value = AmountInAt(ammTrail[1].arg, FeeValue(ammPool.fee))
       /\ (IsOut(2) /\ ammTrail[2].arg = ammTrail[1].res.value)
            => /\ Returned(ammTrail[2].res)
               /\ ammTrail[2].res.value >= ammTrail[1].arg

(* The inequality of C3 alone, which the code satisfies at every fee. *)
PaidInputObtainsOutput ==
    (/\ IsIn(1) /\ IsOut(2) /\ FeeAccepted(ammPool.fee)
     /\ Returned(ammTrail[1].res)
     /\ ammTrail[2].arg = ammTrail[1].res.value)
    => /\ Returned(ammTrail[2].res)
       /\ ammTrail[2].res.value >= ammTrail[1].arg

(* C4: every value get_amount_out returns, at a fee in [0, 10000), is       *)
(* strictly positive and strictly less than reserve_out.                    *)
C4_OutputPositiveBelowReserve ==
    \A i \in DOMAIN ammTrail :
        (IsOut(i) /\ FeeAccepted(ammPool.fee) /\ Returned(ammTrail[i].res))
        => /\ ammTrail[i].res.value > 0
           /\ ammTrail[i].res.value < ammPool.reserve_out

C4_Witness ==
    /\ IsOut(1) /\ FeeInRange(ammPool.fee) /\ Returned(ammTrail[1].res)
    /\ ammPool.reserve_out >= 3
    /\ ammTrail[1].res.value = ammPool.reserve_out - 1

(* Two quotes a1 < a2 against the same pool that both produce a result. *)
TwoQuotes(i, j) ==
    /\ IsOut(i) /\ IsOut(j) /\ FeeAccepted(ammPool.fee)
    /\ Returned(ammTrail[i].res) /\ Returned(ammTrail[j].res)
    /\ ammTrail[i].arg < ammTrail[j].arg

(* C5 as stated: get_amount_out is strictly increasing in amount_in. *)
C5_StrictlyIncreasing ==
    \A i, j \in DOMAIN ammTrail :
        TwoQuotes(i, j) => ammTrail[i].res.value < ammTrail[j].res.value

(* C5 as amended: get_amount_out is non-decreasing in amount_in. *)
C5_NonDecreasing ==
    \A i, j \in DOMAIN ammTrail :
        TwoQuotes(i, j) => ammTrail[i].res.value <= ammTrail[j].res.value

C5_Witness ==
    /\ TwoQuotes(1, 2)
    /\ ammTrail[2].arg = ammTrail[1].arg + 1
    /\ ammTrail[1].res.value < ammTrail[2].res.value

----------------------------------------------------------------------------
(* Claims about BondingCurveCalculator, checked under SpecCurve *)

(* A buy from a state with non-negative real reserves that hold the tokens  *)
(* bought, followed by the sell of exactly the tokens it returned, against  *)
(* the updated reserves.                                                    *)
BuyThenMatchingSell ==
    /\ Len(curveTrail) >= 2
    /\ curveTrail[1].kind = "buy" /\ curveTrail[2].kind = "sell"
    /\ curveTrail[1].real_sol >= 0 /\ curveTrail[1].real_token >= 0
    /\ curveTrail[1].amount > 0
    /\ Returned(curveTrail[1].res)
    /\ curveTrail[1].res.value <= curveTrail[1].real_token
    /\ curveTrail[2].amount = curveTrail[1].res.value
    /\ curveTrail[2].real_sol = curveTrail[1].real_sol + curveTrail[1].amount
    /\ curveTrail[2].real_token = curveTrail[1].real_token - curveTrail[1].res.value

(* C6: a buy followed by the matching sell against the updated reserves     *)
(* never returns more SOL than was paid: sol_out <= sol_in.                 *)
C6_BuySellSpread ==
    (BuyThenMatchingSell /\ Returned(curveTrail[2].res))
        => curveTrail[2].res.value <= curveTrail[1].amount

----------------------------------------------------------------------------
(* Claims about PumpDotFunSDK.buy / sell / create_and_buy, under SpecTrade *)

(* C7: the transaction built by _build_buy_transaction                      *)
(* (_build_sell_transaction) carries the trade amount and the bound just    *)
(* computed, so two trades of one kind that differ in their amount or bound *)
(* submit different requests.                                               *)
C7_RequestCarriesAmountAndBound ==
    \A p, q \in sent :
        (p.op = q.op /\ (p.amount # q.amount \/ p.bound # q.bound))
            => p.request # q.request

(* C8: buy, sell and create_and_buy report success only after a             *)
(* confirmation of the submitted transaction has been observed, on every    *)
(* path (ON_CHAIN, simulate, PUMP_PORTAL).                                  *)
C8_SuccessOnlyAfterConfirmation ==
    (pc = "done" /\ result.success) => result.signature \in confirmedSigs

(* The same, for the calls that do not go through the portal, where the     *)
(* code does wait for the confirmation.                                     *)
OnChainSuccessOnlyAfterConfirmation ==
    (pc = "done" /\ result.success /\ tcall.backend = "ON_CHAIN")
        => result.signature \in confirmedSigs

InvalidSlippage(call) ==
    call.slippage_basis_points < 0 \/ call.slippage_basis_points > BPS_DENOMINATOR

(* C9: a call with slippage_basis_points outside [0, 10000] or a            *)
(* non-positive amount returns a failure naming the invalid input, and has  *)
(* made no collaborator call (no fetch, no portal request, no creation, no  *)
(* submission) when it returns.                                             *)
C9_InvalidInputRejectedBeforeAnyCall ==
    (tcall.op # "none" /\ (InvalidSlippage(tcall) \/ tcall.amount <= 0))
    => /\ pc = "done"
       /\ rpcLog = <<>>
       /\ tx = NoTx /\ sig = "None" /\ ~quote.computed
       /\ ~result.success
       /\ result.error = IF InvalidSlippage(tcall) THEN "Invalid slippage value"
                         ELSE IF tcall.op = "sell" THEN "Sell amount must be positive"
                         ELSE "Buy amount must be positive"

C9_Witness ==
    /\ pc = "done" /\ ncalls = 2
    /\ tcall.op = "create_and_buy" /\ tcall.slippage_basis_points > BPS_DENOMINATOR
    /\ tcall.amount > 0
    /\ result.error = "Invalid slippage value"
    /\ rpcLog = <<>>

----------------------------------------------------------------------------
(* Claims about the slippage bound functions, under SpecSlip *)

(* C10: calculate_slippage_amount and apply_slippage_tolerance called with  *)
(* slippage_basis_points < 0 or > 10000 fail with an error instead of       *)
(* returning a bound.                                                       *)
C10_BoundRejectsInvalidTolerance ==
    (/\ slipCall.fn \in {"calculate_slippage_amount", "apply_slippage_tolerance"}
     /\ (slipCall.slippage_basis_points < 0
         \/ slipCall.slippage_basis_points > BPS_DENOMINATOR))
    => ~Returned(slipCall.res)

(* C11: for expected_amount >= 0 and slippage_basis_points in [0, 10000],   *)
(* calculate_slippage_amount and apply_slippage_tolerance return            *)
(* floor(expected * (10000 - bps) / 10000) in minimum mode and              *)
(* floor(expected * (10000 + bps) / 10000) otherwise.                       *)
C11_BoundIsExactFloor ==
    (/\ slipCall.fn \in {"calculate_slippage_amount", "apply_slippage_tolerance"}
     /\ slipCall.expected_amount >= 0
     /\ slipCall.slippage_basis_points \in 0..BPS_DENOMINATOR)
    => /\ Returned(slipCall.res)
       /\ slipCall.res.value =
            (slipCall.expected_amount *
               (IF slipCall.is_minimum
                THEN BPS_DENOMINATOR - slipCall.slippage_basis_points
                ELSE BPS_DENOMINATOR + slipCall.slippage_basis_points))
            \div BPS_DENOMINATOR

----------------------------------------------------------------------------
(* Further claims about PumpDotFunSDK.buy / sell, under SpecTrade *)

Count(seq, x) == Cardinality({i \in 1..Len(seq) : seq[i] = x})

IsPrefix(s, t) == Len(s) <= Len(t) /\ \A i \in 1..Len(s) : s[i] = t[i]

(* The current call is a buy or a sell that takes the on-chain path. *)
OnChainTrade ==
    /\ tcall.op \in {"buy", "sell"}
    /\ tcall.backend = "ON_CHAIN"
    /\ ~tcall.simulate

(* The collaborator calls of an on-chain trade, in the order fetch, submit *)
(* (blockhash, then send), confirm.                                        *)
OnChainOrder ==
    <<"get_account_info", "get_latest_blockhash", "send_transaction",
      "get_signature_statuses">>

(* The quote of the current call on the snapshot its fetch returned. *)
SnapshotQuote ==
    LET account == parse_bonding_curve_data IN
    IF tcall.op = "sell"
    THEN get_sell_price(tcall.amount, account.real_sol_reserves,
                        account.real_token_reserves)
    ELSE get_buy_price(sol_to_lamports(tcall.amount), account.real_sol_reserves,
                       account.real_token_reserves)

(* C12: within one on-chain buy or sell the curve state is fetched exactly  *)
(* once, after validation and before the quote; the expected amount and the *)
(* bound both come from that snapshot; nothing is fetched again and no      *)
(* quote of an earlier call is reused; the collaborator calls occur in the  *)
(* order fetch, submit, confirm.                                            *)
C12_SingleSnapshotInOrder ==
    OnChainTrade =>
        /\ IsPrefix(rpcLog, OnChainOrder)
        /\ Count(rpcLog, "get_account_info") <= 1
        /\ rpcLog # <<>> =>
              validate_slippage(tcall.slippage_basis_points) /\ tcall.amount > 0
        /\ rpcLog = <<>> => ~quote.computed
        /\ pc \in {"send", "confirm"} => quote.computed
        /\ Len(rpcLog) >= 2 => quote.computed
        /\ quote.computed =>
              /\ Returned(SnapshotQuote)
              /\ quote.expected = SnapshotQuote.value
              /\ Ok(quote.bound) \in calculate_slippage_amount(
                                        quote.expected, tcall.slippage_basis_points, TRUE)

C12_Witness ==
    /\ OnChainTrade /\ ncalls = 2
    /\ pc = "done" /\ result.success
    /\ rpcLog = OnChainOrder
    /\ quote.computed /\ quote.bound < quote.expected

Last(seq) == seq[Len(seq)]

(* C13: a single buy or sell call submits at most one transaction or one   *)
(* portal request; after a failed submission or an unconfirmed transaction *)
(* it has returned the failure, and it neither re-submits nor re-quotes.   *)
C13_NoAutomaticRetry ==
    tcall.op \in {"buy", "sell"} =>
        /\ Count(rpcLog, "send_transaction") + Count(rpcLog, "portal_request") <= 1
        /\ Count(rpcLog, "get_latest_blockhash") <= 1
        /\ Count(rpcLog, "get_account_info") <= 1
        /\ (rpcLog # <<>> /\ Last(rpcLog) = "get_latest_blockhash")
              => pc = "done" /\ ~result.success
        /\ (rpcLog # <<>> /\ Last(rpcLog) = "send_transaction" /\ sig = "None")
              => pc = "done" /\ ~result.success
        /\ (rpcLog # <<>> /\ Last(rpcLog) = "get_signature_statuses")
              => pc = "done" /\ (result.success <=> sig \in confirmedSigs)

C13_Witness ==
    /\ tcall.op \in {"buy", "sell"} /\ tcall.backend = "ON_CHAIN"
    /\ pc = "done" /\ ~result.success
    /\ Count(rpcLog, "send_transaction") = 1
    /\ Last(rpcLog) = "get_signature_statuses"

(* C14: buy, sell and create_and_buy never propagate an exception: every   *)
(* call ends with one TransactionResult, and a failure is returned with    *)
(* success False and the error text.                                       *)
C14_FailureReturnedWithErrorText ==
    (pc = "done" /\ tcall.op # "none")
        => (~result.success => result.error # "None")

(* The same for the calls that do not go through the portal: every failure *)
(* there is an exception caught by the method's own except clause (or      *)
(* _create_token's "Token creation failed").                               *)
OnChainFailureHasErrorText ==
    (pc = "done" /\ tcall.op # "none" /\ tcall.backend = "ON_CHAIN")
        => (~result.success => result.error # "None")

----------------------------------------------------------------------------
(* Further claims about BondingCurveCalculator, under SpecCurve *)

(* The quotes of the trail taken on non-negative real reserves with a      *)
(* positive amount that returned a (positive) result.                      *)
PositiveQuotes(kind) ==
    {i \in 1..Len(curveTrail) :
        /\ curveTrail[i].kind = kind
        /\ curveTrail[i].real_sol >= 0 /\ curveTrail[i].real_token >= 0
        /\ curveTrail[i].amount > 0
        /\ Returned(curveTrail[i].res)}

(* C15: with vs = VIRTUAL_SOL_RESERVES + real_sol and                      *)
(* vt = VIRTUAL_TOKEN_RESERVES + real_token, a buy that returns gives      *)
(* vt - floor(vs*vt / (vs + sol_in)) and a sell that returns gives         *)
(* vs - floor(vs*vt / (vt + tokens_in)), in exact integer arithmetic.      *)
C15_QuotesAreConstantProduct ==
    /\ \A i \in PositiveQuotes("buy") :
          LET vs == VIRTUAL_SOL_RESERVES + curveTrail[i].real_sol
              vt == VIRTUAL_TOKEN_RESERVES + curveTrail[i].real_token
          IN  curveTrail[i].res.value
                 = vt - ((vs * vt) \div (vs + curveTrail[i].amount))
    /\ \A i \in PositiveQuotes("sell") :
          LET vs == VIRTUAL_SOL_RESERVES + curveTrail[i].real_sol
              vt == VIRTUAL_TOKEN_RESERVES + curveTrail[i].real_token
          IN  curveTrail[i].res.value
                 = vs - ((vs * vt) \div (vt + curveTrail[i].amount))

C15_Witness ==
    /\ PositiveQuotes("buy") # {} /\ PositiveQuotes("sell") # {}
    /\ \E i \in PositiveQuotes("buy") :
          (VIRTUAL_SOL_RESERVES + curveTrail[i].real_sol)
            * (VIRTUAL_TOKEN_RESERVES + curveTrail[i].real_token)
            % (VIRTUAL_SOL_RESERVES + curveTrail[i].real_sol + curveTrail[i].amount) # 0

(* C16: the virtual reserves a quote uses are those of the on-chain global *)
(* configuration: a buy that returns gives the constant-product amount     *)
(* computed with the global account's initial virtual reserves.            *)
C16_QuoteUsesGlobalConfiguration ==
    \A i \in PositiveQuotes("buy") :
        LET vs == globalAccount.initial_virtual_sol_reserves + curveTrail[i].real_sol
            vt == globalAccount.initial_virtual_token_reserves + curveTrail[i].real_token
        IN  curveTrail[i].res.value
               = vt - ((vs * vt) \div (vs + curveTrail[i].amount))

----------------------------------------------------------------------------
(* Further claims about AMMCalculator, under SpecAMM *)

(* What the call i of the trail must have done with its input: amount <= 0 *)
(* is InvalidAmount, a reserve <= 0 InvalidReserves, for get_amount_in an  *)
(* amount_out >= reserve_out OutputExceedsReserves, a computed             *)
(* amount_out <= 0 InsufficientOutput; every failure is a PumpFunError, and *)
(* a call that fails none of the checks returns a positive number.         *)
ErrorContract(i) ==
    LET c == ammTrail[i]
        failed(msg) == c.res.exc = "PumpFunError" /\ c.res.msg = msg
    IN  /\ ~Returned(c.res) => c.res.exc = "PumpFunError"
        /\ Returned(c.res) => c.res.value > 0
        /\ IF c.arg <= 0
           THEN failed(IF c.fn = "get_amount_out" THEN "Input amount must be positive"
                                                  ELSE "Output amount must be positive")
           ELSE IF ammPool.reserve_in <= 0 \/ ammPool.reserve_out <= 0
           THEN failed("Reserves must be positive")
           ELSE IF c.fn = "get_amount_in" /\ c.arg >= ammPool.reserve_out
           THEN failed("Output amount exceeds reserves")
           ELSE Returned(c.res) \/ (c.fn = "get_amount_out"
                                      /\ failed("Insufficient output amount"))

(* C17: get_amount_out and get_amount_in return an error, never a number,   *)
(* for invalid input, each kind of invalid input with its own error, and    *)
(* every failure is of the library's own error type, for every fee in       *)
(* [0, 10000].                                                              *)
C17_InvalidInputFailsWithLibraryError ==
    (\A f \in ammPool.fee : f >= 0 /\ f <= BPS_DENOMINATOR)
        => \A i \in 1..Len(ammTrail) : ErrorContract(i)

(* The same for fees below 10000, where no division by zero can occur. *)
ErrorContractBelowFullFee ==
    (\A f \in ammPool.fee : f >= 0 /\ f < BPS_DENOMINATOR)
        => \A i \in 1..Len(ammTrail) : ErrorContract(i)

----------------------------------------------------------------------------
(* Claims about the functions of bonding_curve.py, under SpecPure *)

IsQuote == pureCall.fn \in {"get_buy_price", "get_sell_price"}

(* The output a quote computes from its arguments, when its division is    *)
(* defined: tokens_out of a buy, sol_out of a sell.                        *)
ComputedOutput ==
    LET a == pureCall.args[1]
        vs == VIRTUAL_SOL_RESERVES + pureCall.args[2]
        vt == VIRTUAL_TOKEN_RESERVES + pureCall.args[3]
        divisor == IF pureCall.fn = "get_buy_price" THEN vs + a ELSE vt + a
        kept == IF pureCall.fn = "get_buy_price" THEN vt ELSE vs
    IN  [defined |-> divisor # 0,
         value |-> IF divisor = 0 THEN 0 ELSE kept - FloorDiv(vs * vt, divisor)]

(* C18: get_buy_price and get_sell_price fail with an error and return no  *)
(* value when the input amount is <= 0 and when the computed output is     *)
(* <= 0; whenever they return, the result is a strictly positive integer.  *)
C18_QuoteFailsOrIsPositive ==
    IsQuote =>
        /\ pureCall.args[1] <= 0 => ~Returned(pureCall.res)
        /\ (ComputedOutput.defined /\ ComputedOutput.value <= 0)
              => ~Returned(pureCall.res)
        /\ Returned(pureCall.res) => pureCall.res.value > 0

C18_Witness ==
    /\ pureCall.fn = "get_buy_price"
    /\ pureCall.args[1] > 0
    /\ ~Returned(pureCall.res)
    /\ pureCall.res.msg = "Invalid token amount calculated"

(* C19: for every state with real_token > 0 in which get_buy_out_price is  *)
(* positive, get_buy_price of that amount on the same reserves returns     *)
(* exactly real_token.                                                     *)
C19_BuyOutPriceBuysAllTokens ==
    (/\ pureCall.fn = "get_buy_price" /\ pureCall.from = "get_buy_out_price"
     /\ pureCall.args[2] >= 0 /\ pureCall.args[3] > 0
     /\ pureCall.args[1] > 0)
    => /\ Returned(pureCall.res)
       /\ pureCall.res.value = pureCall.args[3]

(* C20: get_progress_percentage returns a value in [0, 100] for every      *)
(* account state, including token_total_supply = 0 and                     *)
(* real_token_reserves > token_total_supply.                               *)
C20_ProgressWithinZeroAndHundred ==
    pureCall.fn = "get_progress_percentage"
    => /\ Returned(pureCall.res)
       /\ 0 <= pureCall.res.value.num
       /\ pureCall.res.value.num <= 100 * pureCall.res.value.den


----------------------------------------------------------------------------
(* Claims about validate_slippage, under SpecSlip *)

ValidateCalled == slipCall.fn = "validate_slippage"

(* C21: validate_slippage(bps) returns True exactly when 0 <= bps <= 10000: *)
(* False for every negative value and every value above 10000, True at 0    *)
(* and at 10000.                                                            *)
C21_ValidExactlyWithinZeroAndTenThousand ==
    ValidateCalled
    => /\ Returned(slipCall.res)
       /\ slipCall.res.value =
            (slipCall.slippage_basis_points >= 0
             /\ slipCall.slippage_basis_points <= 10000)

C21_Witness ==
    /\ ValidateCalled
    /\ slipCall.slippage_basis_points = 10000
    /\ slipCall.res.value = TRUE


----------------------------------------------------------------------------
(* Claims about LiquidityPool and AMMManager, under SpecPool *)

(* C22: every registered LiquidityPool has k = reserve_a * reserve_b, after *)
(* its construction and after every update_reserves, and get_pool_info      *)
(* reports a constant_product equal to the product of the reserves it       *)
(* reports.                                                                 *)
C22_ConstantProductNeverStale ==
    /\ \A i \in 1..Len(pools) :
          pools[i].pool.k = pools[i].pool.reserve_a * pools[i].pool.reserve_b
    /\ poolCall.fn = "get_pool_info"
       => poolCall.res.value.constant_product =
            poolCall.res.value.reserve_a * poolCall.res.value.reserve_b

(* get_pool_info of a pool whose reserves only update_reserves can have set *)
C22_Witness ==
    /\ poolCall.fn = "get_pool_info"
    /\ poolCall.res.value.reserve_a = MaxPoolReserve
    /\ poolCall.res.value.reserve_b = MaxPoolReserve
    /\ poolCall.res.value.constant_product = MaxPoolReserve * MaxPoolReserve

RouteAsked == poolCall.fn = "find_best_route"

(* The pool trades token_in against token_out, in one orientation or the   *)
(* other.                                                                  *)
TradesPair(pool, token_in, token_out) ==
    {pool.token_a_mint, pool.token_b_mint} = {token_in, token_out}

DirectPools ==
    {i \in 1..Len(pools) : TradesPair(pools[i].pool, poolCall.args[1], poolCall.args[2])}

(* C24: find_best_route returns None, without raising, when no registered   *)
(* pool trades the pair asked in either orientation (also when there is no  *)
(* pool at all); a route it returns never has more than one pool.           *)
C24_NoDirectPoolGivesNone ==
    RouteAsked
    => /\ DirectPools = {} => (Returned(poolCall.res) /\ poolCall.res.value = NoRoute)
       /\ Returned(poolCall.res) => Len(poolCall.res.value.pools) <= 1

(* C to B is asked with the pools A-C and A-B registered with reserves: a  *)
(* two-hop path exists, no direct pool does.                               *)
C24_Witness ==
    /\ RouteAsked
    /\ poolCall.args = <<"C", "B", MaxPoolReserve>>
    /\ Len(pools) = 2
    /\ \A i \in 1..2 : pools[i].pool.reserve_a > 0 /\ pools[i].pool.reserve_b > 0
    /\ \E i \in 1..2 : TradesPair(pools[i].pool, "A", "C")
    /\ \E i \in 1..2 : TradesPair(pools[i].pool, "A", "B")
    /\ poolCall.res.value = NoRoute

(* What simulate_swap of the i-th pool gives for the amount asked, in the  *)
(* direction of the request.                                               *)
SimulatedOut(i) ==
    simulate_swap(pools[i].pool, poolCall.args[3],
                  pools[i].pool.token_a_mint = poolCall.args[1])

BestDirectRoute ==
    /\ Returned(poolCall.res)
    /\ poolCall.res.value.type = "direct"
    /\ Len(poolCall.res.value.pools) = 1
    /\ \E i \in DirectPools :
          /\ poolCall.res.value.pools = <<pools[i].pool_id>>
          /\ poolCall.res.value.amount_out = SimulatedOut(i).value.amount_out
    /\ \A j \in DirectPools :
          SimulatedOut(j).value.amount_out <= poolCall.res.value.amount_out

(* C25: when at least one registered pool trades the pair directly,         *)
(* find_best_route of a positive amount returns a "direct" route through    *)
(* one such pool, whose simulated amount_out is the largest of all the      *)
(* direct pools'.                                                           *)
C25_BestDirectRouteReturned ==
    (RouteAsked /\ poolCall.args[3] > 0 /\ DirectPools # {}) => BestDirectRoute

(* The same, when the simulation of every direct pool succeeds. *)
BestDirectRouteWhenAllSimulate ==
    (/\ RouteAsked /\ DirectPools # {}
     /\ \A i \in DirectPools : Returned(SimulatedOut(i)))
    => BestDirectRoute

TwoDirectPoolsCompared ==
    /\ RouteAsked /\ Cardinality(DirectPools) = 2
    /\ Returned(poolCall.res)
    /\ \E i \in DirectPools :
          SimulatedOut(i).value.amount_out < poolCall.res.value.amount_out


----------------------------------------------------------------------------
(* Claims about calculate_lp_tokens_to_mint, under SpecPure *)

LpCalled == pureCall.fn = "calculate_lp_tokens_to_mint"

(* C23: for amounts >= 0, calculate_lp_tokens_to_mint with total_supply = 0 *)
(* returns max(floor(sqrt(amount_a * amount_b)) - MINIMUM_LIQUIDITY, 0),    *)
(* the square root being the exact integer one; with total_supply > 0 and   *)
(* both reserves > 0 it returns min(floor(amount_a * total_supply /         *)
(* reserve_a), floor(amount_b * total_supply / reserve_b)); a result is     *)
(* never negative.                                                          *)
C23_LpTokensToMint ==
    LpCalled =>
      LET a == pureCall.args[1]
          b == pureCall.args[2]
          ra == pureCall.args[3]
          rb == pureCall.args[4]
          supply == pureCall.args[5]
          root == Isqrt(a * b)
      IN  /\ supply = 0
             => /\ Returned(pureCall.res)
                /\ pureCall.res.value = IF root - MINIMUM_LIQUIDITY > 0
                                        THEN root - MINIMUM_LIQUIDITY ELSE 0
          /\ (supply > 0 /\ ra > 0 /\ rb > 0)
             => /\ Returned(pureCall.res)
                /\ pureCall.res.value =
                     IF (a * supply) \div ra < (b * supply) \div rb
                     THEN (a * supply) \div ra ELSE (b * supply) \div rb
          /\ Returned(pureCall.res) => pureCall.res.value >= 0

(* The proportional branch alone, and the sign of every result. *)
LpProportionalMint ==
    (LpCalled /\ pureCall.args[5] > 0 /\ pureCall.args[3] > 0 /\ pureCall.args[4] > 0)
    => /\ Returned(pureCall.res)
       /\ pureCall.res.value * pureCall.args[3] <= pureCall.args[1] * pureCall.args[5]
       /\ pureCall.res.value * pureCall.args[4] <= pureCall.args[2] * pureCall.args[5]
       /\ \/ (pureCall.res.value + 1) * pureCall.args[3] > pureCall.args[1] * pureCall.args[5]
          \/ (pureCall.res.value + 1) * pureCall.args[4] > pureCall.args[2] * pureCall.args[5]
       /\ pureCall.res.value >= 0


----------------------------------------------------------------------------
(* Claims about _parse_log_message and wait_for_confirmation, under SpecPure *)

ParseCalled == pureCall.fn = "_parse_log_message"

(* The log lines of the message parsed: those of a list of logs held by a  *)
(* dict or object result.                                                  *)
LinesParsed ==
    LET reply == pureCall.args[1].result IN
    IF reply.kind \in {"dict", "object"} /\ reply.logs.kind = "list"
    THEN reply.logs.lines ELSE <<>>

(* The line is a string with 'Program log:' in it and the discriminator    *)
(* somewhere after it.                                                     *)
Carries(log, discriminator) ==
    /\ log # NotAString
    /\ \E i \in 1..Len(log), j \in 1..Len(log) :
          i < j /\ log[i] = "Program log:" /\ log[j] = discriminator

EventTypeOf(discriminator) ==
    CASE discriminator = "CreateEvent" -> "createEvent"
      [] discriminator = "TradeEvent" -> "tradeEvent"
      [] discriminator = "CompleteEvent" -> "completeEvent"

Carried ==
    {d \in {"CreateEvent", "TradeEvent", "CompleteEvent"} :
        \E i \in 1..Len(LinesParsed) : Carries(LinesParsed[i], d)}

(* C26: _parse_log_message never raises, whatever the shape of the message; *)
(* when a 'Program log:' line of the message carries CreateEvent,           *)
(* TradeEvent or CompleteEvent it returns event data of the type of a       *)
(* discriminator carried (createEvent, tradeEvent, completeEvent), and when *)
(* no line carries one it returns None.                                     *)
C26_ClassifiesByDiscriminator ==
    ParseCalled
    => /\ Returned(pureCall.res)
       /\ Carried = {} => pureCall.res.value = NoEventData
       /\ Carried # {} =>
            \E d \in Carried : pureCall.res.value.event_type = EventTypeOf(d)

(* The parts of it that hold: no exception leaves the call, and event data *)
(* returned has the type of a discriminator carried by a line.             *)
ParseNeverRaises ==
    ParseCalled
    => /\ Returned(pureCall.res)
       /\ \/ pureCall.res.value = NoEventData
          \/ \E d \in Carried : pureCall.res.value.event_type = EventTypeOf(d)

WaitCalled == pureCall.fn = "wait_for_confirmation"

(* C27: wait_for_confirmation returns a boolean and never raises: True when *)
(* a poll made before the timeout shows the signature at the commitment     *)
(* asked or above, False when the timeout passes without one (the poll      *)
(* showing a lower level, no status, or failing with an RPC error).         *)
C27_ConfirmationReturnsBoolean ==
    WaitCalled
    => /\ Returned(pureCall.res)
       /\ pureCall.res.value =
            (pureCall.args[1] = "at_commitment" /\ pureCall.args[2] > 0)

(* What does hold: a poll at the commitment within the timeout gives True, *)
(* and True is returned for no other poll.                                 *)
ConfirmedOnlyAtCommitment ==
    WaitCalled
    => /\ (pureCall.args[1] = "at_commitment" /\ pureCall.args[2] > 0)
            => (Returned(pureCall.res) /\ pureCall.res.value = TRUE)
       /\ (Returned(pureCall.res) /\ pureCall.res.value = TRUE)
            => pureCall.args[1] = "at_commitment"


----------------------------------------------------------------------------
(* Claims about the EventManager, under SpecEvents *)

(* A message has been processed since the listeners last changed. *)
Processed == evCall.event_type # "none"

Classified == evCall.event_type \in EventTypes

(* How many times the callback of the listener was invoked. *)
InvokedCount(listener_id) ==
    Cardinality({k \in 1..Len(evCall.invoked) :
                    evCall.invoked[k].listener_id = listener_id})

MatchingListeners ==
    {i \in 1..Len(listeners) : listeners[i].event_type = evCall.event_type}

(* C28: _process_message of a classified message invokes the callback of    *)
(* every registered listener of the message's event type exactly once, with *)
(* (event object, slot, signature), and the callback of no listener of      *)
(* another type; an unrecognized message invokes no callback.               *)
C28_MatchingListenersInvokedOnce ==
    Processed
    => /\ \A i \in 1..Len(listeners) :
             InvokedCount(listeners[i].listener_id) =
               IF i \in MatchingListeners THEN 1 ELSE 0
       /\ \A k \in 1..Len(evCall.invoked) :
             evCall.invoked[k].event.type = evCall.event_type
       /\ ~Classified => evCall.invoked = <<>>

(* The part of it that holds: no callback of a listener of another type is *)
(* invoked, none twice, and none for an unrecognized message.              *)
NoCallbackOfAnotherType ==
    Processed
    => /\ \A i \in 1..Len(listeners) :
             InvokedCount(listeners[i].listener_id) <=
               IF i \in MatchingListeners THEN 1 ELSE 0
       /\ ~Classified => evCall.invoked = <<>>

(* C29: when the callback of a listener of the message's type fails,        *)
(* _process_message does not raise and every other listener of that type    *)
(* still receives the event.                                                *)
C29_CallbackFailureContained ==
    (/\ Processed /\ Classified
     /\ \E i \in MatchingListeners : listeners[i].callback = "raises")
    => /\ Returned(evCall.res)
       /\ \A j \in MatchingListeners : InvokedCount(listeners[j].listener_id) = 1

(* The dispatch loop itself contains a failing callback: given event data  *)
(* whose keys are valid, every listener of the type is called once,        *)
(* whether the callbacks of the others return or raise, as long as no      *)
(* callback of the type changes the registry.                              *)
DispatchContainsFailures ==
    \A type \in EventTypes :
       LET data == [event_type |-> type,
                    mint |-> "11111111111111111111111111111112",
                    user |-> "11111111111111111111111111111113"]
           calls == InvocationsFrom(listeners, 1, data)
       IN  (\A i \in 1..Len(listeners) :
               listeners[i].event_type = type => listeners[i].callback # "removes")
           => \A i \in 1..Len(listeners) :
                 Cardinality({k \in 1..Len(calls) :
                                 calls[k].listener_id = listeners[i].listener_id})
                 = IF listeners[i].event_type = type THEN 1 ELSE 0

(* C30: add_listener returns 1, 2, 3, ... in call order; next_id is above   *)
(* every id issued; no id is issued twice, also after its listener was      *)
(* removed; the registered listeners have distinct ids, all of them issued. *)
C30_ListenerIdsNeverReissued ==
    /\ \A i \in 1..Len(issued) : issued[i] = i
    /\ \A i \in 1..Len(issued) : issued[i] < next_id
    /\ \A i, j \in 1..Len(issued) : i # j => issued[i] # issued[j]
    /\ \A i, j \in 1..Len(listeners) :
          i # j => listeners[i].listener_id # listeners[j].listener_id
    /\ \A i \in 1..Len(listeners) :
          \E j \in 1..Len(issued) : listeners[i].listener_id = issued[j]

(* Every listener but the last added has been removed. *)
C30_Witness ==
    /\ Len(issued) = MaxListeners
    /\ Len(listeners) = 1
    /\ listeners[1].listener_id = MaxListeners
    /\ next_id = MaxListeners + 1


----------------------------------------------------------------------------
(* C31: every call keeps the listener registry exact. add_listener appends *)
(* exactly one listener, under the id next_id, keeps the others as they    *)
(* were and moves next_id on by one. remove_listener(id) leaves exactly    *)
(* the listeners whose id is not id, in their order, and leaves next_id    *)
(* alone; when no listener has that id the registry is unchanged and the   *)
(* call returns.                                                           *)
C31_RegistryHoldsAddedNotRemoved ==
    [][/\ evOp'.op = "add_listener" =>
            /\ next_id' = next_id + 1
            /\ evOp'.listener_id = next_id
            /\ Len(listeners') = Len(listeners) + 1
            /\ SubSeq(listeners', 1, Len(listeners)) = listeners
            /\ listeners'[Len(listeners')].listener_id = next_id
       /\ evOp'.op = "remove_listener" =>
            /\ next_id' = next_id
            /\ Len(listeners') =
                  Cardinality({i \in 1..Len(listeners) :
                                  listeners[i].listener_id # evOp'.listener_id})
            /\ \A i \in 1..Len(listeners) :
                  listeners[i].listener_id # evOp'.listener_id =>
                     \E j \in 1..Len(listeners') : listeners'[j] = listeners[i]
            /\ (\A i \in 1..Len(listeners) :
                   listeners[i].listener_id # evOp'.listener_id) =>
                  listeners' = listeners]_vars

(* remove_listener(1) was called with the listeners 1, 2 and 3 registered, *)
(* and the listeners 2 and 3 are the registry.                             *)
C31_Witness ==
    /\ evOp = [op |-> "remove_listener", listener_id |-> 1]
    /\ Len(issued) = 3
    /\ Len(listeners) = 2
    /\ listeners[1].listener_id = 2
    /\ listeners[2].listener_id = 3


----------------------------------------------------------------------------
(* The listen loops that can still run: the tasks suspended at an await    *)
(* that no cancel() was requested of.                                      *)
LiveTasks == {i \in 1..Len(tasks) : Suspended(tasks[i]) /\ ~tasks[i].cancel}

(* C32: when a listen loop has failed while is_listening is true (its      *)
(* handler is in the reconnect delay), then, unless stop_listening is      *)
(* called, another listen loop is eventually running.                      *)
C32_FailureLeadsToNewLoop ==
    \A i \in 1..MaxTasks :
       (i <= Len(tasks) /\ tasks[i].at = "sleep" /\ ~tasks[i].cancel /\ is_listening)
          ~> (~is_listening \/ \E j \in LiveTasks : j # i)

(* C32, its second half: is_listening is never true while no listen loop   *)
(* is running or pending.                                                  *)
ListeningHasLoop == is_listening => LiveTasks # {}

(* C33: at most one listen loop can run at any time, whatever the order of *)
(* start_listening, stop_listening and connection errors; while            *)
(* is_listening is false (after stop_listening) no loop can run, the task  *)
(* having been cancelled; and every message handed to _process_message was *)
(* handed over while is_listening was true by a task that was not          *)
(* cancelled.                                                              *)
C33_AtMostOneListenLoop ==
    /\ Cardinality(LiveTasks) <= 1
    /\ ~is_listening => LiveTasks = {}
    /\ \A k \in 1..Len(dispatched) :
          dispatched[k].is_listening /\ ~dispatched[k].cancel

(* start_listening was called again after stop_listening before the        *)
(* cancellation of the first task was delivered: the first task is still   *)
(* suspended with its cancellation pending, the second one is receiving    *)
(* and has dispatched a message.                                           *)
C33_Witness ==
    /\ Len(tasks) = 2
    /\ Suspended(tasks[1]) /\ tasks[1].cancel
    /\ tasks[2].at = "receive"
    /\ is_listening
    /\ Len(dispatched) >= 1


----------------------------------------------------------------------------
FetchCalled == cacheCall.fn = "fetch_global_account_data"

(* C34: fetch_global_account_data answers from the cache, with no RPC,     *)
(* exactly when force_refresh is false, a value is cached and its          *)
(* timestamp is less than CACHE_DURATION seconds old; the value it then    *)
(* returns is the cached one, read less than CACHE_DURATION seconds ago,   *)
(* and the cache is untouched. Otherwise it makes the RPC: on success the  *)
(* value returned is the cached value and its timestamp is the time of the *)
(* call, on failure NetworkError is raised and the cached value and the    *)
(* timestamp are as before. The call that follows clear_cache makes the    *)
(* RPC.                                                                    *)
C34_CacheServedOnlyWhileFresh ==
    FetchCalled =>
       LET age == cacheCall.current_time - cacheCall.timestamp_before
           fresh == /\ ~cacheCall.force_refresh
                    /\ cacheCall.cached_before.present
                    /\ age < CACHE_DURATION
       IN  /\ ~cacheCall.rpc <=> fresh
           /\ ~cacheCall.rpc =>
                 /\ cacheCall.res = Ok(cacheCall.cached_before)
                 /\ cacheCall.current_time - cacheCall.cached_before.read_at
                       < CACHE_DURATION
                 /\ cached_data = cacheCall.cached_before
                 /\ cache_timestamp = cacheCall.timestamp_before
           /\ (cacheCall.rpc /\ Returned(cacheCall.res)) =>
                 /\ cacheCall.res.value.present
                 /\ cached_data = cacheCall.res.value
                 /\ cache_timestamp = cacheCall.current_time
           /\ (cacheCall.rpc /\ ~Returned(cacheCall.res)) =>
                 /\ cacheCall.res.exc = "NetworkError"
                 /\ cached_data = cacheCall.cached_before
                 /\ cache_timestamp = cacheCall.timestamp_before
           /\ cacheCall.after_clear => cacheCall.rpc

(* A call was answered from a cache filled earlier and about to expire.    *)
C34_Witness ==
    /\ FetchCalled
    /\ ~cacheCall.rpc
    /\ cacheCall.current_time - cacheCall.timestamp_before = CACHE_DURATION - 1


----------------------------------------------------------------------------
CreateAndBuyCalled == tcall.op = "create_and_buy"

(* How many collaborator calls of the given name the call has made. *)
CallsMade(name) == Cardinality({k \in 1..Len(rpcLog) : rpcLog[k] = name})

(* Nothing of the buy step has happened: no bonding-curve fetch, no quote, *)
(* and at most the one portal request or submission of the creation.       *)
NoBuyAttempted ==
    /\ ~quote.computed
    /\ CallsMade("get_account_info") = 0
    /\ CallsMade("portal_request") <= 1
    /\ CallsMade("send_transaction") <= 1
    /\ sig # "sigTrade"

(* C35: in create_and_buy the creation comes strictly before the buy: as   *)
(* long as _create_token has not returned nothing of the buy has happened, *)
(* and the buy runs only after a successful creation. When the creation    *)
(* failed its result is returned as it is and no buy is attempted. The     *)
(* combined result is successful only if the creation succeeded and the    *)
(* buy succeeded.                                                          *)
C35_CreateStrictlyBeforeBuy ==
    CreateAndBuyCalled =>
       /\ stage = "create" => NoBuyAttempted /\ createRes = NoResult
       /\ stage = "trade" => createRes.success
       /\ (pc = "done" /\ ~createRes.success) =>
             /\ NoBuyAttempted
             /\ rpcLog # <<>> => result = createRes
             /\ ~result.success
       /\ (pc = "done" /\ result.success) => createRes.success

(* create_and_buy returned the failure of a creation it had submitted. *)
C35_Witness ==
    /\ CreateAndBuyCalled
    /\ pc = "done"
    /\ CallsMade("send_transaction") = 1
    /\ ~createRes.success
    /\ result = createRes


----------------------------------------------------------------------------
(* C36: after any sequence of buys and sells applied at their quoted       *)
(* amounts, starting from real reserves that are not negative, the real    *)
(* SOL reserves and the real token reserves are not negative.              *)
C36_RealReservesNeverNegative ==
    /\ realSol >= 0
    /\ realToken >= 0


----------------------------------------------------------------------------
SwapSimulated == pureCall.fn = "simulate_swap" /\ Returned(pureCall.res)

(* The price impact of a swap that takes amount_out from reserve_out,      *)
(* in percent and capped at 100: the relative change of                    *)
(* reserve_out / reserve_in, as a fraction.                                *)
ImpactOfSwap(amount_in, reserve_in, reserve_out, amount_out) ==
    LET new_reserve_in == reserve_in + amount_in
        new_reserve_out == reserve_out - amount_out
        diff == new_reserve_out * reserve_in - reserve_out * new_reserve_in
        num == (IF diff >= 0 THEN diff ELSE -diff) * 100
        den == new_reserve_in * reserve_out
    IN  IF new_reserve_out <= 0 \/ num > 100 * den THEN Fraction(100, 1)
        ELSE Fraction(num, den)

(* C37: the price_impact simulate_swap returns is the impact of the swap   *)
(* it quotes, computed from the reserves after its own amount_out (the     *)
(* quote at the pool's fee_basis_points), and it lies between 0 and 100.   *)
C37_ImpactMatchesQuotedSwap ==
    SwapSimulated =>
       LET reserve_in == IF pureCall.args[5] THEN pureCall.args[1] ELSE pureCall.args[2]
           reserve_out == IF pureCall.args[5] THEN pureCall.args[2] ELSE pureCall.args[1]
           impact == pureCall.res.value.price_impact
           own == ImpactOfSwap(pureCall.args[4], reserve_in, reserve_out,
                               pureCall.res.value.amount_out)
       IN  /\ impact.den > 0
           /\ 0 <= impact.num
           /\ impact.num <= 100 * impact.den
           /\ impact.num * own.den = own.num * impact.den

(* The bounds alone: the price impact of every simulated swap lies between *)
(* 0 and 100.                                                              *)
ImpactWithinBounds ==
    SwapSimulated =>
       /\ pureCall.res.value.price_impact.den > 0
       /\ 0 <= pureCall.res.value.price_impact.num
       /\ pureCall.res.value.price_impact.num <= 100 * pureCall.res.value.price_impact.den


----------------------------------------------------------------------------
(* C38: when a callback called by the dispatch of an event removes a       *)
(* listener from the registry, every listener of the event's type that was *)
(* registered when the dispatch began is still called exactly once (the    *)
(* event data having valid keys, so that callbacks are called at all).     *)
C38_DispatchSurvivesRegistryChange ==
    \A type \in EventTypes :
       LET data == [event_type |-> type,
                    mint |-> "11111111111111111111111111111112",
                    user |-> "11111111111111111111111111111113"]
           calls == InvocationsFrom(listeners, 1, data)
       IN  (\E i \in 1..Len(listeners) :
               listeners[i].event_type = type /\ listeners[i].callback = "removes")
           => \A j \in 1..Len(listeners) :
                 listeners[j].event_type = type =>
                    Cardinality({k \in 1..Len(calls) :
                                    calls[k].listener_id = listeners[j].listener_id}) = 1


----------------------------------------------------------------------------
(* The direct pools whose simulate_swap returns a quote for the request. *)
QuotablePools == {i \in DirectPools : Returned(SimulatedOut(i))}

(* C39: when some pool that trades the pair can quote the request and      *)
(* another one cannot, find_best_route does not fail: it returns the       *)
(* direct route through a pool that can quote, with the largest amount_out *)
(* among those pools, whatever the order the pools were registered in.     *)
C39_UnquotablePoolDoesNotFailRoute ==
    (RouteAsked /\ QuotablePools # {} /\ QuotablePools # DirectPools)
    => /\ Returned(poolCall.res)
       /\ poolCall.res.value.type = "direct"
       /\ \E i \in QuotablePools :
             /\ poolCall.res.value.pools = <<pools[i].pool_id>>
             /\ poolCall.res.value.amount_out = SimulatedOut(i).value.amount_out
       /\ \A j \in QuotablePools :
             SimulatedOut(j).value.amount_out <= poolCall.res.value.amount_out


----------------------------------------------------------------------------
(* A TransactionResult is well formed: a success carries a signature and   *)
(* no error; a failure carries an error text and no signature.             *)
WellFormed(r) ==
    IF r.success THEN r.signature # "None" /\ r.error = "None"
    ELSE r.error \notin {"None", ""} /\ r.signature = "None"

(* C40: the TransactionResult that buy, sell or create_and_buy returned,   *)
(* and the one _create_token returned inside create_and_buy, are well      *)
(* formed on every backend.                                                *)
C40_ResultsWellFormed ==
    (pc = "done" /\ tcall.op # "none")
    => /\ WellFormed(result)
       /\ createRes # NoResult => WellFormed(createRes)

(* The same for the calls made with the ON_CHAIN backend. *)
OnChainResultsWellFormed ==
    (pc = "done" /\ tcall.op # "none" /\ tcall.backend = "ON_CHAIN")
    => /\ WellFormed(result)
       /\ createRes # NoResult => WellFormed(createRes)

=============================================================================
